---- MODULE Spec2Model ----
(***************************************************************************)
(* A model of the PRTG uptime extractor                                    *)
(* (src/src/prtg-uptime-extractor_down_01_Ash_excel.py and                 *)
(* src/src/debug_script_standalone.py).                                    *)
(*                                                                         *)
(* Text is modelled by TLA+ strings, compared and cut character by         *)
(* character with Len, SubSeq and \o, so that the substring tests, the     *)
(* regular expressions and the number conversions of the code are          *)
(* computed and not assumed.                                               *)
(***************************************************************************)
EXTENDS Integers, Sequences, FiniteSets, TLC

VARIABLES
    \* ---- the duration codec applied to one input --------------------
    cin,        \* the input: a duration token and a seconds total
    cop,        \* the codec function applied to it ("init": none yet, "off")
    decoded,    \* what duration_to_seconds returned
    text,       \* what seconds_to_duration_format or the hh:mm:ss conversion returned
    \* ---- one call of extract_uptime_stats or extract_all_urls_from_pdf ----
    mode,       \* "single", "discovery" ("off": no call)
    target,     \* the target_url of extract_uptime_stats
    xpc,        \* "loop": at the head of the page loop; "scanned": a page's body
                \* has run; "returned"; "raised"; "converted"
    npages,     \* the number of pages the loop has taken (page_num + 1 in the body)
    cur_page,   \* the page of the current iteration
    found,      \* extract_uptime_stats: the dict it returns, or None
    kind,       \* extract_all_urls_from_pdf: the kind of report the document is
    first_hit,  \* extract_uptime_stats: the number of the first page whose text
                \* held target_url, 0 while no page has
    walk,       \* extract_all_urls_from_pdf: current_url, results, processed_urls
    converted,  \* the returned dicts after the conversion of their durations
    walks,      \* calls of extract_all_urls_from_pdf in progress at one time:
                \* for each its file, the pages taken and its own locals
    \* ---- the data folder and one run of process_all_pdfs ------------------
    pdf_files,  \* the PDF files of the data folder, in the order glob gives them
    ppc,        \* "idle" (no run), "docs", "csv", "main", "ash", "stats";
                \* "agg": the statistics functions alone, on given files
    ndone,      \* the number of PDF files the loop has processed
    all_results,\* the dicts collected by the run
    notice,     \* what the run printed last about its outcome
    full_csv,   \* uptime_report.csv
    main_csv,   \* uptime_report_main_url.csv
    ash_csv,    \* uptime_report_ash_url.csv
    excel,      \* resumen_downtime.xlsx
    stats,      \* what calculate_downtime_statistics returned last
    debug_stats \* what debug_calculate_downtime_statistics returned last

codecVars == <<cin, cop, decoded, text>>
extractVars == <<mode, kind, target, xpc, npages, cur_page, found, first_hit, walk,
                 converted, walks>>

runVars == <<pdf_files, ppc, ndone, all_results, notice>>
diskVars == <<full_csv, main_csv, ash_csv, excel>>
statsVars == <<stats, debug_stats>>

vars == <<cin, cop, decoded, text,
          mode, kind, target, xpc, npages, cur_page, found, first_hit, walk,
          converted, walks,
          pdf_files, ppc, ndone, all_results, notice, full_csv, main_csv, ash_csv, excel,
          stats, debug_stats>>

-----------------------------------------------------------------------------
(* Python string primitives *)

\* s[i], 1-based, as a one-character string
CharAt(s, i) == SubSeq(s, i, i)

\* pat in s
Contains(s, pat) ==
    \E i \in 1..(Len(s) - Len(pat) + 1) : SubSeq(s, i, i + Len(pat) - 1) = pat

\* s.endswith(suf)
EndsWith(s, suf) ==
    /\ Len(suf) <= Len(s)
    /\ SubSeq(s, Len(s) - Len(suf) + 1, Len(s)) = suf

\* str.isspace() for one character (the whitespace the reports can hold)
IsSpace(c) == c \in {" ", "\t"}

\* the characters re's \d and int() accept in the reports
IsDigit(c) == c \in {"0", "1", "2", "3", "4", "5", "6", "7", "8", "9"}

DigitVal(c) ==
    CASE c = "0" -> 0 [] c = "1" -> 1 [] c = "2" -> 2 [] c = "3" -> 3
      [] c = "4" -> 4 [] c = "5" -> 5 [] c = "6" -> 6 [] c = "7" -> 7
      [] c = "8" -> 8 [] c = "9" -> 9

DigitChar(d) == CharAt("0123456789", d + 1)

\* s.strip()
RECURSIVE LStrip(_)
LStrip(s) ==
    IF Len(s) > 0 /\ IsSpace(CharAt(s, 1)) THEN LStrip(SubSeq(s, 2, Len(s))) ELSE s

RECURSIVE RStrip(_)
RStrip(s) ==
    IF Len(s) > 0 /\ IsSpace(CharAt(s, Len(s)))
    THEN RStrip(SubSeq(s, 1, Len(s) - 1)) ELSE s

Strip(s) == RStrip(LStrip(s))

\* the least element of a set of integers, 0 for the empty set
Leftmost(S) == IF S = {} THEN 0 ELSE CHOOSE p \in S : \A q \in S : p <= q

\* the first index >= from at which pat occurs in s, 0 when there is none
FindFrom(s, pat, from) ==
    Leftmost({i \in from..(Len(s) - Len(pat) + 1) : SubSeq(s, i, i + Len(pat) - 1) = pat})

\* int(digits) for a string of decimal digits
RECURSIVE StrToInt(_)
StrToInt(digits) ==
    IF Len(digits) = 0 THEN 0
    ELSE 10 * StrToInt(SubSeq(digits, 1, Len(digits) - 1))
         + DigitVal(CharAt(digits, Len(digits)))

\* str(n), f"{n}" for an integer n >= 0
RECURSIVE IntToStr(_)
IntToStr(n) ==
    IF n < 10 THEN DigitChar(n) ELSE IntToStr(n \div 10) \o DigitChar(n % 10)

\* f"{n}" where the code writes f"{n:02d}"
FormatNoPad(n) == IntToStr(n)

\* f"{n:02d}" for an integer n >= 0: zero-padded to a width of at least two
Format02d(n) == IF Len(IntToStr(n)) < 2 THEN "0" \o IntToStr(n) ELSE IntToStr(n)

-----------------------------------------------------------------------------
(* duration_to_seconds *)

\* an optional string argument: a str, or None
Str(s) == [none |-> FALSE, str |-> s]
None == [none |-> TRUE, str |-> ""]

\* the index of the last digit of the run of digits that starts at i
RECURSIVE DigitRunEnd(_, _)
DigitRunEnd(s, i) ==
    IF i < Len(s) /\ IsDigit(CharAt(s, i + 1)) THEN DigitRunEnd(s, i + 1) ELSE i

\* whether r'(\d+)<unit>' matches at start position p: \d+ is greedy, and giving
\* digits back never helps, since the character after a shorter run is a digit
UnitMatchAt(s, p, unit) ==
    /\ p <= Len(s)
    /\ IsDigit(CharAt(s, p))
    /\ DigitRunEnd(s, p) < Len(s)
    /\ CharAt(s, DigitRunEnd(s, p) + 1) = unit

\* re.search(r'(\d+)<unit>', s): the leftmost start position that matches, 0 for None
UnitSearch(s, unit) == Leftmost({p \in 1..Len(s) : UnitMatchAt(s, p, unit)})

\* UnitValue reading one digit where the code reads the whole run (r'(\d)<unit>')
UnitValueOneDigit(s, unit) ==
    LET p == UnitSearch(s, unit)
    IN  IF p = 0 THEN 0 ELSE DigitVal(CharAt(s, DigitRunEnd(s, p)))

\* int(match.group(1)) of that search, 0 when there is no match
UnitValue(s, unit) ==
    LET p == UnitSearch(s, unit)
    IN  IF p = 0 THEN 0 ELSE StrToInt(SubSeq(s, p, DigitRunEnd(s, p)))

SecondsPerDay == 86400
SecondsPerHour == 3600
SecondsPerMinute == 60

\* duration_to_seconds with one pattern for the whole token, which fixes the order
\* of the components (r'(\d+)d\s*(\d+)h\s*(\d+)m\s*(\d+)s' in place of four searches)
duration_to_seconds_ordered(duration_str) ==
    LET s == duration_str.str
        d == UnitSearch(s, "d")
        h == UnitSearch(s, "h")
        m == UnitSearch(s, "m")
        x == UnitSearch(s, "s")
    IN  IF duration_str.none \/ s = "" THEN 0
        ELSE IF 0 < d /\ d < h /\ h < m /\ m < x
        THEN UnitValue(s, "d") * SecondsPerDay + UnitValue(s, "h") * SecondsPerHour
             + UnitValue(s, "m") * SecondsPerMinute + UnitValue(s, "s")
        ELSE 0

duration_to_seconds(duration_str) ==
    IF duration_str.none \/ duration_str.str = "" THEN 0
    ELSE UnitValue(duration_str.str, "d") * SecondsPerDay
       + UnitValue(duration_str.str, "h") * SecondsPerHour
       + UnitValue(duration_str.str, "m") * SecondsPerMinute
       + UnitValue(duration_str.str, "s")

-----------------------------------------------------------------------------
(* seconds_to_duration_format *)

\* ", ".join(parts)
RECURSIVE Join(_, _)
Join(sep, parts) ==
    IF Len(parts) = 0 THEN ""
    ELSE IF Len(parts) = 1 THEN parts[1]
    ELSE parts[1] \o sep \o Join(sep, Tail(parts))

\* Plural without the test for 1
PluralAlways(value, word) == IntToStr(value) \o " " \o word \o "s"

\* f"{value} {word}{'s' if value != 1 else ''}"
Plural(value, word) ==
    IntToStr(value) \o " " \o word \o (IF value # 1 THEN "s" ELSE "")

\* parts.append(...) guarded by value > 0
AppendIfPositive(parts, value, word) ==
    IF value > 0 THEN Append(parts, Plural(value, word)) ELSE parts

seconds_to_duration_format(total_seconds) ==
    IF total_seconds = 0 THEN "0 segundos"
    ELSE
        LET days == total_seconds \div SecondsPerDay
            hours == (total_seconds % SecondsPerDay) \div SecondsPerHour
            minutes == (total_seconds % SecondsPerHour) \div SecondsPerMinute
            seconds == total_seconds % SecondsPerMinute
            p1 == AppendIfPositive(<<>>, days, "día")
            p2 == AppendIfPositive(p1, hours, "hora")
            p3 == AppendIfPositive(p2, minutes, "minuto")
            p4 == AppendIfPositive(p3, seconds, "segundo")
        IN  Join(", ", p4)

\* the hh:mm:ss conversion of create_summary_excel
time_formatted(total_downtime_seconds) ==
    LET hours == total_downtime_seconds \div SecondsPerHour
        minutes == (total_downtime_seconds % SecondsPerHour) \div SecondsPerMinute
        seconds == total_downtime_seconds % SecondsPerMinute
    IN  Format02d(hours) \o ":" \o Format02d(minutes) \o ":" \o Format02d(seconds)

-----------------------------------------------------------------------------
(* The codec's inputs *)

MaxDays == 2

Units == <<"d", "h", "m", "s">>

\* the orders in which the components of a token may be written: every sequence of
\* distinct units, the empty one included
UnitOrders ==
    {o \in UNION {[1..n -> 1..4] : n \in 0..Len(Units)} :
        \A i, j \in DOMAIN o : i # j => o[i] # o[j]}

\* the digits written before each unit (d, h, m, s), with the integer they spell
ComponentDigits ==
    { <<"06", "23", "59", "41">>,
      <<"00", "00", "10", "00">>,
      <<"1", "100", "007", "3600">>,
      <<"12", "5", "0", "9">> }

Separators == {"", " ", ", "}

\* the token that writes the components of `digits` in the order `o`
RECURSIVE RenderToken(_, _, _)
RenderToken(o, digits, sep) ==
    IF Len(o) = 0 THEN ""
    ELSE digits[o[1]] \o Units[o[1]]
         \o (IF Len(o) > 1 THEN sep ELSE "")
         \o RenderToken(Tail(o), digits, sep)

\* the integer a written component spells, 0 for a component the order leaves out
WrittenValue(o, digits, u) ==
    IF \E i \in DOMAIN o : o[i] = u THEN StrToInt(digits[u]) ELSE 0

StructuredInputs ==
    { [kind |-> "token",
       tok |-> Str(RenderToken(o, digits, sep)),
       comp |-> [u \in 1..4 |-> WrittenValue(o, digits, u)],
       secs |-> 0] :
      o \in UnitOrders, digits \in ComponentDigits, sep \in Separators }

\* tokens with no recognizable component, None among them
BlankInputs ==
    { [kind |-> "blank", tok |-> t, comp |-> [u \in 1..4 |-> 0], secs |-> 0] :
      t \in {None, Str(""), Str(" "), Str("abc"), Str("12"), Str("d h m s"),
             Str("5 d"), Str("7 x"), Str("3.5"), Str("n/a")} }

DayValues == (0..MaxDays) \cup {6, 41}
HourValues == {0, 1, 2, 23}
MinuteValues == {0, 1, 5, 59}
SecondValues == {0, 1, 41, 59}

\* '<days>d <hours>h <minutes>m <seconds>s' for the breakdown of s
BreakdownToken(s) ==
    IntToStr(s \div 86400) \o "d "
    \o IntToStr((s % 86400) \div 3600) \o "h "
    \o IntToStr((s % 3600) \div 60) \o "m "
    \o IntToStr(s % 60) \o "s"

SecondsInput(s) ==
    [kind |-> "secs",
     tok |-> Str(BreakdownToken(s)),
     comp |-> <<s \div 86400, (s % 86400) \div 3600, (s % 3600) \div 60, s % 60>>,
     secs |-> s]

SecondsInputs ==
    { SecondsInput(d * 86400 + h * 3600 + m * 60 + s) :
      d \in DayValues, h \in HourValues, m \in MinuteValues, s \in SecondValues }

CodecInputs == StructuredInputs \cup BlankInputs \cup SecondsInputs

NoInput == [kind |-> "none", tok |-> None, comp |-> [u \in 1..4 |-> 0], secs |-> 0]

CodecOff == cin = NoInput /\ cop = "off" /\ decoded = 0 /\ text = ""

-----------------------------------------------------------------------------
(* The text of a report: markers, patterns and the lines of a page *)

ProbeMarker == "Probe, Group, Device:"
StatsMarker == "Uptime Stats:"
PrimaryUrl == "https://buenosaires.gob.ar/"
AshUrl == "ash.buenosaires.gob.ar/"

\* page.extract_text(): the text of a page as its lines (text.split('\n')), or None
PageOf(lines) == [none |-> FALSE, lines |-> lines]
NonePage == [none |-> TRUE, lines |-> <<>>]

\* target_url in text, for a target without a line break
InText(lines, target_url) == \E i \in DOMAIN lines : Contains(lines[i], target_url)

\* the first index >= p of s that holds no whitespace (\s*), Len(s) + 1 at the end
RECURSIVE SkipSpaces(_, _)
SkipSpaces(s, p) ==
    IF p <= Len(s) /\ IsSpace(CharAt(s, p)) THEN SkipSpaces(s, p + 1) ELSE p

\* the same for [\d\.]
RECURSIVE SkipNumeric(_, _)
SkipNumeric(s, p) ==
    IF p <= Len(s) /\ (IsDigit(CharAt(s, p)) \/ CharAt(s, p) = ".")
    THEN SkipNumeric(s, p + 1) ELSE p

\* the same for [^\]]
RECURSIVE SkipNotBracket(_, _)
SkipNotBracket(s, p) ==
    IF p <= Len(s) /\ CharAt(s, p) # "]" THEN SkipNotBracket(s, p + 1) ELSE p

\* The places of r'<label>\s*([\d\.]+)\s*(%)\s*\[([^\]]+)\]' tried at position p.
\* Every repetition is greedy and the classes that follow one another are
\* disjoint, so the greedy reading is the only one.
TripleNumStart(s, label, p) == SkipSpaces(s, p + Len(label))
TripleNumEnd(s, label, p) == SkipNumeric(s, TripleNumStart(s, label, p))
TriplePercent(s, label, p) == SkipSpaces(s, TripleNumEnd(s, label, p))
TripleOpen(s, label, p) == SkipSpaces(s, TriplePercent(s, label, p) + 1)
TripleClose(s, label, p) == SkipNotBracket(s, TripleOpen(s, label, p) + 1)

TripleMatchAt(s, label, p) ==
    /\ p + Len(label) - 1 <= Len(s)
    /\ SubSeq(s, p, p + Len(label) - 1) = label
    /\ TripleNumEnd(s, label, p) > TripleNumStart(s, label, p)
    /\ TriplePercent(s, label, p) <= Len(s)
    /\ CharAt(s, TriplePercent(s, label, p)) = "%"
    /\ TripleOpen(s, label, p) <= Len(s)
    /\ CharAt(s, TripleOpen(s, label, p)) = "["
    /\ TripleClose(s, label, p) > TripleOpen(s, label, p) + 1
    /\ TripleClose(s, label, p) <= Len(s)

\* re.search(pattern, line): the leftmost position that matches, 0 for None
TripleSearch(s, label) == Leftmost({p \in 1..Len(s) : TripleMatchAt(s, label, p)})

\* match.group(1), the percentage, and match.group(3), the duration token
Group1(s, label, p) ==
    SubSeq(s, TripleNumStart(s, label, p), TripleNumEnd(s, label, p) - 1)
Group3(s, label, p) ==
    SubSeq(s, TripleOpen(s, label, p) + 1, TripleClose(s, label, p) - 1)

up_match(line) == TripleSearch(line, "Up:")
down_match(line) == TripleSearch(line, "Down:")

\* a dict: a function from its keys; d[key] = value
SetKey(d, key, value) == (key :> value) @@ d

\* StatsResult reading the downtime groups from up_match
StatsResultUpTwice(archivo_pdf, url, line, pagina) ==
    LET up == up_match(line)
    IN  [archivo_pdf |-> archivo_pdf,
         url |-> url,
         uptime_porcentaje |-> Group1(line, "Up:", up),
         uptime_unidad |-> "%",
         uptime_duracion |-> Group3(line, "Up:", up),
         downtime_porcentaje |-> Group1(line, "Up:", up),
         downtime_unidad |-> "%",
         downtime_duracion |-> Group3(line, "Up:", up),
         pagina |-> pagina]

\* the dict both modes build from a statistics line on which both patterns match
StatsResult(archivo_pdf, url, line, pagina) ==
    LET up == up_match(line)
        down == down_match(line)
    IN  [archivo_pdf |-> archivo_pdf,
         url |-> url,
         uptime_porcentaje |-> Group1(line, "Up:", up),
         uptime_unidad |-> "%",
         uptime_duracion |-> Group3(line, "Up:", up),
         downtime_porcentaje |-> Group1(line, "Down:", down),
         downtime_unidad |-> "%",
         downtime_duracion |-> Group3(line, "Down:", down),
         pagina |-> pagina]

\* line.split(marker)[1].strip(): what lies between the first occurrence of the
\* marker and the next one (or the end of the line)
SplitSecond(line, marker) ==
    LET a == FindFrom(line, marker, 1) + Len(marker)
        b == FindFrom(line, marker, a)
    IN  Strip(SubSeq(line, a, IF b = 0 THEN Len(line) ELSE b - 1))

\* the last index of ":" in the line, 0 when there is none
LastColon(line) ==
    LET S == {p \in 1..Len(line) : CharAt(line, p) = ":"}
    IN  IF S = {} THEN 0 ELSE CHOOSE p \in S : \A q \in S : q <= p

\* line.split(":")[-1].strip()
SplitLast(line) == Strip(SubSeq(line, LastColon(line) + 1, Len(line)))

\* the if/elif chain that reads one line of the context window into the result
ContextLine(result, line) ==
    IF Contains(line, "Report Time Span:")
    THEN SetKey(result, "periodo_reporte", SplitSecond(line, "Report Time Span:"))
    ELSE IF Contains(line, "Report Hours:")
    THEN SetKey(result, "horas_reporte", SplitSecond(line, "Report Hours:"))
    ELSE IF Contains(line, "Sensor Type:")
    THEN SetKey(result, "tipo_sensor", SplitSecond(line, "Sensor Type:"))
    ELSE IF Contains(line, "Average (Loading time):")
            \/ Contains(line, "Average (Loading Time):")
    THEN SetKey(result, "tiempo_carga_promedio", SplitLast(line))
    ELSE result

\* for k in range(lo, hi + 1), 1-based: the lines lo..hi read in order
RECURSIVE ContextScan(_, _, _, _)
ContextScan(result, lines, lo, hi) ==
    IF lo > hi THEN result
    ELSE ContextScan(ContextLine(result, lines[lo]), lines, lo + 1, hi)

Min(a, b) == IF a < b THEN a ELSE b
Max(a, b) == IF a > b THEN a ELSE b

-----------------------------------------------------------------------------
(* extract_uptime_stats: one target *)

StatsLookahead == 10
SingleContextBefore == 5
SingleContextAfter == 15

\* the guard without its test of the end of the line
DeclarationGuardNoEnd(line, target_url) ==
    /\ Contains(line, ProbeMarker) /\ Contains(line, target_url)
    /\ ~Contains(line, "/tramites") /\ ~Contains(line, "/educacion")

\* the two ifs that accept a declaration line
DeclarationGuard(line, target_url) ==
    /\ Contains(line, ProbeMarker) /\ Contains(line, target_url)
    /\ ~Contains(line, "/tramites") /\ ~Contains(line, "/educacion")
    /\ EndsWith(Strip(line), target_url)

\* the test if the up triple alone made a statistics line
StatsLineMatchesUpOnly(line) ==
    Contains(line, StatsMarker) /\ up_match(line) # 0

\* if "Uptime Stats:" in lines[j] ... if up_match and down_match
StatsLineMatches(line) ==
    Contains(line, StatsMarker) /\ up_match(line) # 0 /\ down_match(line) # 0

\* the search if it ended at the first line that holds the marker, with or
\* without the two triples
RECURSIVE FirstStatsLineMarkerOnly(_, _, _)
FirstStatsLineMarkerOnly(lines, j, last) ==
    IF j > last THEN 0
    ELSE IF Contains(lines[j], StatsMarker)
    THEN (IF StatsLineMatches(lines[j]) THEN j ELSE 0)
    ELSE FirstStatsLineMarkerOnly(lines, j + 1, last)

\* for j in range(i, min(i + 10, len(lines))), 1-based: the lines i .. min(i+9, n);
\* the first j whose line holds the marker and both triples, 0 when there is none
RECURSIVE FirstStatsLine(_, _, _)
FirstStatsLine(lines, j, last) ==
    IF j > last THEN 0
    ELSE IF StatsLineMatches(lines[j]) THEN j
    ELSE FirstStatsLine(lines, j + 1, last)

\* the lookahead if it took the line i + 10 as well
SingleStatsLineInclusive(lines, i) ==
    FirstStatsLine(lines, i, Min(i + StatsLookahead, Len(lines)))

SingleStatsLine(lines, i) ==
    FirstStatsLine(lines, i, Min(i + StatsLookahead - 1, Len(lines)))

\* the first declaration line, from i on, that passes the guard and has a matching
\* statistics line in its lookahead; 0 when the page has none
RECURSIVE FirstDeclaration(_, _, _)
FirstDeclaration(lines, target_url, i) ==
    IF i > Len(lines) THEN 0
    ELSE IF DeclarationGuard(lines[i], target_url) /\ SingleStatsLine(lines, i) # 0
    THEN i
    ELSE FirstDeclaration(lines, target_url, i + 1)

\* the window if it took the line i + 15 as well
SingleContextInclusive(result, lines, i) ==
    ContextScan(result, lines, Max(1, i - SingleContextBefore),
                Min(i + SingleContextAfter, Len(lines)))

\* for k in range(i-5, min(i + 15, len(lines))): if k >= 0, 1-based
SingleContext(result, lines, i) ==
    ContextScan(result, lines, Max(1, i - SingleContextBefore),
                Min(i + SingleContextAfter - 1, Len(lines)))

\* the value of the function: a dict, or None
Found(result) == [found |-> TRUE, result |-> result]
NotFound == [found |-> FALSE, result |-> <<>>]

\* the search if a page without text were an error
SingleSearchNoText(page, target_url) ==
    IF page.none \/ page.lines = <<"">> THEN [outcome |-> "raise", i |-> 0]
    ELSE IF ~InText(page.lines, target_url) THEN [outcome |-> "next", i |-> 0]
    ELSE LET i == FirstDeclaration(page.lines, target_url, 1) IN
         IF i = 0 THEN [outcome |-> "next", i |-> 0]
         ELSE [outcome |-> "return", i |-> i]

\* The search of the body of the page loop on one page: "return" with the
\* declaration line i that gives the dict, "next" (go on with the next page), or
\* "raise" (target_url in None is a TypeError).
SingleSearch(page, target_url) ==
    IF page.none THEN [outcome |-> "raise", i |-> 0]
    ELSE IF ~InText(page.lines, target_url) THEN [outcome |-> "next", i |-> 0]
    ELSE LET i == FirstDeclaration(page.lines, target_url, 1) IN
         IF i = 0 THEN [outcome |-> "next", i |-> 0]
         ELSE [outcome |-> "return", i |-> i]

\* the outcome of the body for the search s of the page (page_num counts from
\* 0): the dict of the declaration line s.i when there is one
SingleOutcome(archivo_pdf, page, page_num, target_url, s) ==
    IF s.outcome # "return" THEN [outcome |-> s.outcome, result |-> <<>>]
    ELSE [outcome |-> "return",
          result |-> SingleContext(
              StatsResult(archivo_pdf, target_url,
                          page.lines[SingleStatsLine(page.lines, s.i)],
                          page_num + 1),
              page.lines, s.i)]

\* The body of the page loop for one page. The outcome: "return" with the dict,
\* "next", or "raise".
SinglePage(archivo_pdf, page, page_num, target_url) ==
    SingleOutcome(archivo_pdf, page, page_num, target_url,
                  SingleSearch(page, target_url))

-----------------------------------------------------------------------------
(* extract_all_urls_from_pdf: every recognized target *)

DiscoveryContextBefore == 10
DiscoveryContextAfter == 10

\* current_url = None
NoUrl == ""

\* the classification of a declaration line: the if/elif chain in its order
ClassifyDeclaration(line, current_url) ==
    IF ~Contains(line, "buenosaires.gob.ar") THEN current_url
    ELSE IF Contains(line, "> https://buenosaires.gob.ar/") THEN PrimaryUrl
    ELSE IF Contains(line, "buenosaires.gob.ar/tramites")
    THEN "buenosaires.gob.ar/tramites"
    ELSE IF Contains(line, "buenosaires.gob.ar/educacion")
    THEN "buenosaires.gob.ar/educacion"
    ELSE IF Contains(line, "nba-drupal.buenosaires.gob.ar")
    THEN "nba-drupal.buenosaires.gob.ar"
    ELSE IF Contains(line, "ash.buenosaires.gob.ar") THEN AshUrl
    ELSE current_url

\* for k in range(max(0, i-10), min(i + 10, len(lines))), 1-based
DiscoveryContext(result, lines, i) ==
    ContextScan(result, lines, Max(1, i - DiscoveryContextBefore),
                Min(i + DiscoveryContextAfter - 1, Len(lines)))

\* the walk without its test of processed_urls
NotYetProcessedAlways(current_url, processed_urls) == TRUE

\* the test that lets a statistics line through: the target is not yet recorded
NotYetProcessed(current_url, processed_urls) == current_url \notin processed_urls

\* the line if a statistics line that lacks a triple marked its target as seen
DiscoveryLineMarksRejected(archivo_pdf, w, lines, i, page_num) ==
    IF Contains(lines[i], ProbeMarker)
    THEN [w EXCEPT !.current_url = ClassifyDeclaration(lines[i], w.current_url)]
    ELSE IF /\ Contains(lines[i], StatsMarker)
            /\ w.current_url # NoUrl
            /\ NotYetProcessed(w.current_url, w.processed_urls)
    THEN IF up_match(lines[i]) # 0 /\ down_match(lines[i]) # 0
         THEN [w EXCEPT
                 !.results = Append(@, DiscoveryContext(
                     StatsResult(archivo_pdf, w.current_url, lines[i], page_num + 1),
                     lines, i)),
                 !.processed_urls = @ \cup {w.current_url}]
         ELSE [w EXCEPT !.processed_urls = @ \cup {w.current_url}]
    ELSE w

\* One line of a page. w: the walk's variables, current_url, results and
\* processed_urls.
DiscoveryLine(archivo_pdf, w, lines, i, page_num) ==
    IF Contains(lines[i], ProbeMarker)
    THEN [w EXCEPT !.current_url = ClassifyDeclaration(lines[i], w.current_url)]
    ELSE IF /\ Contains(lines[i], StatsMarker)
            /\ w.current_url # NoUrl
            /\ NotYetProcessed(w.current_url, w.processed_urls)
            /\ up_match(lines[i]) # 0 /\ down_match(lines[i]) # 0
    THEN [w EXCEPT
            !.results = Append(@, DiscoveryContext(
                StatsResult(archivo_pdf, w.current_url, lines[i], page_num + 1),
                lines, i)),
            !.processed_urls = @ \cup {w.current_url}]
    ELSE w

RECURSIVE DiscoveryLines(_, _, _, _, _)
DiscoveryLines(archivo_pdf, w, lines, i, page_num) ==
    IF i > Len(lines) THEN w
    ELSE DiscoveryLines(archivo_pdf,
                        DiscoveryLine(archivo_pdf, w, lines, i, page_num),
                        lines, i + 1, page_num)

\* results = [], processed_urls = set()
DiscoveryStart == [current_url |-> NoUrl, results |-> <<>>, processed_urls |-> {},
                   raised |-> FALSE]

\* the body if current_url were set once, before the loop over the pages
DiscoveryPageKeepsUrl(archivo_pdf, w, page, page_num) ==
    IF page.none THEN [w EXCEPT !.raised = TRUE]
    ELSE DiscoveryLines(archivo_pdf, w, page.lines, 1, page_num)

\* The body of the page loop for one page (page_num counts from 0): current_url
\* starts as None; text.split of None is an AttributeError.
DiscoveryPage(archivo_pdf, w, page, page_num) ==
    IF page.none THEN [w EXCEPT !.raised = TRUE]
    ELSE DiscoveryLines(archivo_pdf, [w EXCEPT !.current_url = NoUrl],
                        page.lines, 1, page_num)

-----------------------------------------------------------------------------
(* calculate_downtime_statistics and debug_calculate_downtime_statistics *)

\* a file of the data folder: absent, or the rows csv.DictReader yields (dicts
\* from the columns of the header to the text of the cells)
NoFile == [exists |-> FALSE, rows |-> <<>>]
FileOf(rows) == [exists |-> TRUE, rows |-> rows]

\* whether int(cell) succeeds: the cell, trimmed, is digits after an optional sign
IntParses(cell) ==
    LET s == Strip(cell)
        body == IF Len(s) > 0 /\ CharAt(s, 1) \in {"+", "-"}
                THEN SubSeq(s, 2, Len(s)) ELSE s
    IN  Len(body) > 0 /\ \A i \in 1..Len(body) : IsDigit(CharAt(body, i))

\* int(cell) when it succeeds
IntOf(cell) ==
    LET s == Strip(cell)
    IN  IF CharAt(s, 1) = "-" THEN 0 - StrToInt(SubSeq(s, 2, Len(s)))
        ELSE IF CharAt(s, 1) = "+" THEN StrToInt(SubSeq(s, 2, Len(s)))
        ELSE StrToInt(s)

\* what one row adds to a counter: if column in row and row[column]: try:
\* += int(row[column]) except ValueError: pass
RowValue(row, column) ==
    IF column \in DOMAIN row /\ row[column] # "" /\ IntParses(row[column])
    THEN IntOf(row[column]) ELSE 0

\* for row in reader, for one column of a file that exists
RECURSIVE SumColumn(_, _)
SumColumn(rows, column) ==
    IF Len(rows) = 0 THEN 0
    ELSE RowValue(rows[1], column) + SumColumn(Tail(rows), column)

\* if path.exists(): the sum of a column, 0 for a file that is absent
FileSum(file, column) == IF file.exists THEN SumColumn(file.rows, column) ELSE 0

\* a percentage num/den, held as the fraction the float division rounds
Fraction(num, den) == [num |-> num, den |-> den]
ZeroPercent == Fraction(0, 1)

ZeroStats ==
    [main_url_uptime |-> 0, main_url_downtime |-> 0,
     ash_url_uptime |-> 0, ash_url_downtime |-> 0,
     total_time |-> 0, ash_downtime_percentage |-> ZeroPercent]

\* the quotient without the test of total_time: a division by zero when it is 0
PercentageUnguarded(counters, total_time) ==
    Fraction(counters.ash_url_downtime * 100, total_time)

\* if stats['total_time'] > 0: (ash_url_downtime / total_time) * 100, else the 0
\* the dict starts with
Percentage(counters, total_time) ==
    IF total_time > 0 THEN Fraction(counters.ash_url_downtime * 100, total_time)
    ELSE ZeroPercent

\* the four counters with the uptime of the ASH file added to the main URL's
CountersMixed(main, ash) ==
    [main_url_uptime |-> FileSum(main, "uptime_segundos")
                         + FileSum(ash, "uptime_segundos"),
     main_url_downtime |-> FileSum(main, "downtime_segundos"),
     ash_url_uptime |-> 0,
     ash_url_downtime |-> FileSum(ash, "downtime_segundos")]

\* the four counters after the two files are read
Counters(main, ash) ==
    [main_url_uptime |-> FileSum(main, "uptime_segundos"),
     main_url_downtime |-> FileSum(main, "downtime_segundos"),
     ash_url_uptime |-> FileSum(ash, "uptime_segundos"),
     ash_url_downtime |-> FileSum(ash, "downtime_segundos")]

calculate_downtime_statistics(main, ash) ==
    LET c == Counters(main, ash)
        total_time == c.main_url_uptime + c.main_url_downtime
                      + c.ash_url_uptime + c.ash_url_downtime
    IN  [main_url_uptime |-> c.main_url_uptime,
         main_url_downtime |-> c.main_url_downtime,
         ash_url_uptime |-> c.ash_url_uptime,
         ash_url_downtime |-> c.ash_url_downtime,
         total_time |-> total_time,
         ash_downtime_percentage |-> Percentage(c, total_time)]

\* The debugging variant reads each file row by row, counting the rows; st holds
\* its stats dict and row_count.
DebugRow(st, row, up_key, down_key) ==
    LET up == IF "uptime_segundos" \in DOMAIN row /\ row["uptime_segundos"] # ""
                 /\ IntParses(row["uptime_segundos"])
              THEN IntOf(row["uptime_segundos"]) ELSE 0
        down == IF "downtime_segundos" \in DOMAIN row /\ row["downtime_segundos"] # ""
                   /\ IntParses(row["downtime_segundos"])
                THEN IntOf(row["downtime_segundos"]) ELSE 0
    IN  [st EXCEPT !.row_count = @ + 1,
                   !.stats[up_key] = @ + up,
                   !.stats[down_key] = @ + down]

RECURSIVE DebugRows(_, _, _, _, _)
DebugRows(st, rows, i, up_key, down_key) ==
    IF i > Len(rows) THEN st
    ELSE DebugRows(DebugRow(st, rows[i], up_key, down_key), rows, i + 1,
                   up_key, down_key)

DebugFile(stats_dict, file, up_key, down_key) ==
    IF file.exists
    THEN DebugRows([stats |-> stats_dict, row_count |-> 0], file.rows, 1,
                   up_key, down_key).stats
    ELSE stats_dict

debug_calculate_downtime_statistics(main, ash) ==
    LET s1 == DebugFile(ZeroStats, main, "main_url_uptime", "main_url_downtime")
        s2 == DebugFile(s1, ash, "ash_url_uptime", "ash_url_downtime")
        total_time == s2.main_url_uptime + s2.main_url_downtime
                      + s2.ash_url_uptime + s2.ash_url_downtime
    IN  [s2 EXCEPT
            !.total_time = total_time,
            !.ash_downtime_percentage =
                IF total_time > 0 THEN Fraction(s2.ash_url_downtime * 100, total_time)
                ELSE @]

\* before the function has returned anything
NoStats == [none |-> TRUE]
HasStats(s) == "none" \notin DOMAIN s

\* resumen_downtime.xlsx: absent
NoExcel == [exists |-> FALSE]

\* no run of process_all_pdfs and no call of the statistics functions
RunOff ==
    /\ pdf_files = <<>> /\ ppc = "off" /\ ndone = 0 /\ all_results = <<>>
    /\ notice = ""
    /\ full_csv = NoFile /\ main_csv = NoFile /\ ash_csv = NoFile
    /\ excel = NoExcel /\ stats = NoStats /\ debug_stats = NoStats

-----------------------------------------------------------------------------
(* One call of an extraction function, page by page *)

MaxLines == 3
MaxPages == 2
MaxGap == 10
MaxReach == 16

ExampleUrl == "https://example.org/"

Decl(url) == ProbeMarker \o " > " \o url

StatsFull == "Uptime Stats: Up: 99.50 % [06d 23h 59m 41s] Down: 0.50 % [00d 00h 10m 00s]"
StatsOther == "Uptime Stats: Up: 100 % [07d 00h 00m 00s] Down: 0 % [00s]"
StatsUpOnly == "Uptime Stats: Up: 99.50 % [06d 23h 59m 41s]"
StatsDownOnly == "Uptime Stats: Down: 0.50 % [00d 00h 10m 00s]"
SpanLine == "Report Time Span: 01/01/2024 - 07/01/2024"

\* a declaration line that names a subpath of the target before the target
DeclVia(url, subpath) == ProbeMarker \o " > " \o url \o subpath \o " > " \o url

\* the lines a page read for one target can hold
SingleLines(t) ==
    { Decl(t), Decl(t) \o "  ", Decl(t) \o "docs", DeclVia(t, "tramites"),
      DeclVia(t, "educacion"), "see " \o t, StatsFull }

\* the lines a page read for every target can hold
DiscoveryLinePool ==
    { Decl(PrimaryUrl), Decl("https://" \o AshUrl), StatsFull, StatsOther, StatsUpOnly }

\* the page whose text is the empty string: "".split('\n') is ['']
EmptyPage == PageOf(<<"">>)

\* the pages of at most MaxLines lines over a set of lines (text.split gives at
\* least one line), the page whose text is empty and the page whose text is None
PagesOver(lineSet) ==
    {PageOf(l) : l \in UNION {[1..n -> lineSet] : n \in 1..MaxLines}}
        \cup {EmptyPage, NonePage}

\* the lines that can follow a declaration: statistics lines with both triples,
\* with the up triple only and with the down triple only, a line of the context
FollowingLines == {StatsFull, StatsOther, StatsUpOnly, StatsDownOnly, SpanLine}

\* the pages of a declaration of t and the lines that follow it
StatsRunPages(t) ==
    {PageOf(<<Decl(t)>> \o l) :
        l \in UNION {[1..n -> FollowingLines] : n \in 1..(MaxLines - 1)}}

\* the pages of a declaration of t, g lines of the context and a statistics line
GapPages(t) ==
    {PageOf(<<Decl(t)>> \o [k \in 1..g |-> SpanLine] \o <<StatsFull>>) : g \in 0..MaxGap}

HoursLine == "Report Hours: 24 / 7"
Filler == "Local Probe"

\* the page of a block of lines, then filler lines, then a Report Hours line d
\* lines after line a of the block
FieldAfter(block, a, d) ==
    PageOf(block \o [k \in 1..(d - (Len(block) - a) - 1) |-> Filler] \o <<HoursLine>>)

\* the page of a Report Hours line, then filler lines, then a block of lines
\* whose line a is d lines after the Report Hours line
FieldBefore(block, a, d) ==
    PageOf(<<HoursLine>> \o [k \in 1..(d - a) |-> Filler] \o block)

\* the pages of a declaration of t and its statistics line, with a Report Hours
\* line up to MaxReach lines before or after line a of the two
ReachPages(t, a) ==
    {FieldAfter(<<Decl(t), StatsFull>>, a, d) : d \in (3 - a)..MaxReach}
    \cup {FieldBefore(<<Decl(t), StatsFull>>, a, d) : d \in a..MaxReach}

\* the labeled lines of a report: two time spans, the hours, the sensor type,
\* and the average loading time in both casings of its label
SpanLater == "Report Time Span: 08/01/2024 - 14/01/2024"
SensorLine == "Sensor Type: HTTP Advanced"
LoadLine == "Average (Loading time): 245 msec"
LoadClockLine == "Average (Loading Time): 0:01 min"
FieldLines == {SpanLine, SpanLater, HoursLine, SensorLine, LoadLine, LoadClockLine}

\* the pages of a declaration of t, its statistics line and one or two labeled
\* lines
FieldPages(t) ==
    {PageOf(<<Decl(t), StatsFull>> \o l) :
        l \in [{1} -> FieldLines] \cup [{1, 2} -> FieldLines]}

SingleTargets == {ExampleUrl, PrimaryUrl}
SinglePages ==
    [t \in SingleTargets |->
        PagesOver(SingleLines(t)) \cup StatsRunPages(t) \cup GapPages(t)
            \cup ReachPages(t, 1) \cup FieldPages(t)]
DiscoveryPages == PagesOver(DiscoveryLinePool)

\* the targets a declaration line can name: the main URL, one of its subpaths,
\* ASH, and a target the program does not know
TramitesUrl == "https://buenosaires.gob.ar/tramites"
DeclaredUrls == {PrimaryUrl, TramitesUrl, "https://" \o AshUrl, ExampleUrl}

\* the pages of one or two declarations, each with or without a statistics line
DeclarationPages ==
    {PageOf(<<Decl(a), StatsFull>>) : a \in DeclaredUrls}
    \cup {PageOf(<<Decl(a), Decl(b), StatsOther>>) : a, b \in DeclaredUrls}
    \cup {PageOf(<<Decl(a), StatsFull, Decl(b), StatsOther>>) : a, b \in DeclaredUrls}

\* the kinds of report a document read for every target can be, and the pages
\* of each kind
DiscoveryKinds == {"lines", "declarations", "context", "fields"}
DiscoveryPagesOf ==
    [k \in DiscoveryKinds |->
        CASE k = "lines" -> DiscoveryPages
          [] k = "declarations" -> DeclarationPages \cup {EmptyPage}
          [] k = "context" -> ReachPages(PrimaryUrl, 2)
          [] k = "fields" -> FieldPages(PrimaryUrl)]

NoPage == [none |-> TRUE, lines |-> <<"-">>]
ArchivoPdf == "report.pdf"

\* no call that is followed page by page
CallOff ==
    /\ mode = "off" /\ kind = "" /\ target = "" /\ xpc = "off" /\ npages = 0
    /\ cur_page = NoPage /\ found = NotFound /\ walk = DiscoveryStart
    /\ first_hit = 0 /\ converted = <<>>

ExtractOff == CallOff /\ walks = <<>>

ExtractInit ==
    /\ mode \in {"single", "discovery"}
    /\ target \in (IF mode = "single" THEN SingleTargets ELSE {""})
    /\ kind \in (IF mode = "discovery" THEN DiscoveryKinds ELSE {""})
    /\ xpc = "loop"
    /\ npages = 0
    /\ cur_page = NoPage
    /\ found = NotFound
    /\ first_hit = 0
    /\ walk = DiscoveryStart
    /\ converted = <<>>
    /\ walks = <<>>
    /\ CodecOff
    /\ RunOff

\* whether the body of the page loop gets past if target_url in text
HoldsTarget(page, target_url) == ~page.none /\ InText(page.lines, target_url)

\* the search of the body of the page loop on every page of the pool
SingleSearchOf ==
    [t \in SingleTargets |-> [p \in SinglePages[t] |-> SingleSearch(p, t)]]

\* the loop if a page that holds the target and gives no dict ended the call
\* with None
SingleScanFirstHitOnly ==
    /\ mode = "single" /\ xpc = "loop" /\ npages < MaxPages
    /\ \E p \in SinglePages[target] :
         LET o == SingleOutcome(ArchivoPdf, p, npages, target,
                                SingleSearchOf[target][p]) IN
         /\ cur_page' = p
         /\ xpc' = (CASE o.outcome = "return" -> "returned"
                      [] o.outcome = "raise" -> "raised"
                      [] OTHER -> IF HoldsTarget(p, target) THEN "returned"
                                  ELSE "scanned")
         /\ found' = (IF o.outcome = "return" THEN Found(o.result) ELSE found)
         /\ first_hit' = (IF first_hit = 0 /\ HoldsTarget(p, target)
                          THEN npages + 1 ELSE first_hit)
    /\ npages' = npages + 1
    /\ UNCHANGED <<walks, mode, kind, target, walk, converted>>
    /\ UNCHANGED <<codecVars, runVars, diskVars, statsVars>>

\* extract_uptime_stats: the loop takes the next page and runs its body on it
SingleScan ==
    /\ mode = "single" /\ xpc = "loop" /\ npages < MaxPages
    /\ \E p \in SinglePages[target] :
         LET o == SingleOutcome(ArchivoPdf, p, npages, target,
                                SingleSearchOf[target][p]) IN
         /\ cur_page' = p
         /\ xpc' = (CASE o.outcome = "return" -> "returned"
                      [] o.outcome = "raise" -> "raised"
                      [] OTHER -> "scanned")
         /\ found' = (IF o.outcome = "return" THEN Found(o.result) ELSE found)
         /\ first_hit' = (IF first_hit = 0 /\ HoldsTarget(p, target)
                          THEN npages + 1 ELSE first_hit)
    /\ npages' = npages + 1
    /\ UNCHANGED <<walks, mode, kind, target, walk, converted>>
    /\ UNCHANGED <<codecVars, runVars, diskVars, statsVars>>

\* extract_all_urls_from_pdf: the loop takes the next page and runs its body on it
DiscoveryScan ==
    /\ mode = "discovery" /\ xpc = "loop" /\ npages < MaxPages
    /\ \E p \in DiscoveryPagesOf[kind] :
         /\ cur_page' = p
         /\ walk' = DiscoveryPage(ArchivoPdf, walk, p, npages)
         /\ xpc' = (IF p.none THEN "raised" ELSE "scanned")
    /\ npages' = npages + 1
    /\ UNCHANGED <<walks, mode, kind, target, found, first_hit, converted>>
    /\ UNCHANGED <<codecVars, runVars, diskVars, statsVars>>

\* the end of one iteration: back to the head of the loop
NextPage ==
    /\ xpc = "scanned"
    /\ xpc' = "loop"
    /\ cur_page' = NoPage
    /\ UNCHANGED <<walks, mode, kind, target, npages, found, first_hit, walk, converted>>
    /\ UNCHANGED <<codecVars, runVars, diskVars, statsVars>>

\* pdf.pages is exhausted: return None, return results
EndOfPages ==
    /\ xpc = "loop"
    /\ xpc' = "returned"
    /\ UNCHANGED <<walks, mode, kind, target, npages, cur_page, found, first_hit, walk,
                   converted>>
    /\ UNCHANGED <<codecVars, runVars, diskVars, statsVars>>

\* what the call returned, as the list process_all_pdfs collects
Returned == IF mode = "single"
            THEN (IF found.found THEN <<found.result>> ELSE <<>>)
            ELSE walk.results

\* the conversion with the two duration tokens taken for each other
WithSecondsSwapped(result) ==
    SetKey(SetKey(result, "uptime_segundos",
                  duration_to_seconds(Str(result.downtime_duracion))),
           "downtime_segundos",
           duration_to_seconds(Str(result.uptime_duracion)))

\* result['uptime_segundos'] = ..., result['downtime_segundos'] = ...
WithSeconds(result) ==
    SetKey(SetKey(result, "uptime_segundos",
                  duration_to_seconds(Str(result.uptime_duracion))),
           "downtime_segundos",
           duration_to_seconds(Str(result.downtime_duracion)))

\* for result in all_results: the conversion of the durations to seconds
ConvertDurations ==
    /\ xpc = "returned"
    /\ converted' = [i \in DOMAIN Returned |-> WithSeconds(Returned[i])]
    /\ xpc' = "converted"
    /\ UNCHANGED <<walks, mode, kind, target, npages, cur_page, found, first_hit, walk>>
    /\ UNCHANGED <<codecVars, runVars, diskVars, statsVars>>

ExtractNext == SingleScan \/ DiscoveryScan \/ NextPage \/ EndOfPages \/ ConvertDurations

SpecExtract == ExtractInit /\ [][ExtractNext]_vars

-----------------------------------------------------------------------------
(* The properties of the extraction functions *)

ExamplePage == PageOf(<<Decl(ExampleUrl), StatsFull>>)

\* the call for https://example.org/ returned from the one page ExamplePage, and
\* the durations of what it returned were converted
ExampleConverted ==
    /\ mode = "single" /\ target = ExampleUrl
    /\ xpc = "converted" /\ npages = 1 /\ cur_page = ExamplePage

\* C1, as the claim states it: for the one-page document whose declaration line
\* for https://example.org/ is followed by the statistics line 'Up: 99.50 %
\* [06d 23h 59m 41s] Down: 0.50 % [00d 00h 10m 00s]', extraction and duration
\* decoding yield exactly one record, with downtime_seconds = 600 and
\* uptime_seconds = 603581.
C1_AsClaimed ==
    ExampleConverted =>
        /\ Len(converted) = 1
        /\ converted[1].downtime_segundos = 600
        /\ converted[1].uptime_segundos = 603581

\* C1, amended: the same document yields exactly one record, with
\* downtime_seconds = 600 and uptime_seconds = 604781
\* (6*86400 + 23*3600 + 59*60 + 41).
C1_EndToEnd ==
    ExampleConverted =>
        /\ Len(converted) = 1
        /\ converted[1].url = ExampleUrl
        /\ converted[1].pagina = 1
        /\ converted[1].uptime_duracion = "06d 23h 59m 41s"
        /\ converted[1].downtime_duracion = "00d 00h 10m 00s"
        /\ converted[1].downtime_segundos = 600
        /\ converted[1].uptime_segundos = 604781

\* the example document was extracted and converted
C1_Witness == ExampleConverted /\ Len(converted) = 1

\* no two records of the walk share a target
UniqueTargets(results) ==
    \A i, j \in DOMAIN results : i # j => results[i].url # results[j].url

\* C2: in discovery mode at most one record per target is produced for the whole
\* document: a record, once emitted, stays as it is, and no later statistics
\* line, on the same page or on a later one, adds a second record for its target.
C2_OneRecordPerTarget ==
    [][mode = "discovery" =>
        /\ UniqueTargets(walk'.results)
        /\ \A i \in DOMAIN walk.results :
              /\ i \in DOMAIN walk'.results
              /\ walk'.results[i] = walk.results[i]]_vars

\* the second page repeats the declaration of the primary target with another
\* valid statistics line, and the walk still holds the one record of page 1
C2_Witness ==
    /\ mode = "discovery" /\ xpc = "scanned" /\ npages = 2
    /\ cur_page = PageOf(<<Decl(PrimaryUrl), StatsOther, StatsFull>>)
    /\ Len(walk.results) = 1
    /\ walk.results[1].url = PrimaryUrl
    /\ walk.results[1].pagina = 1
    /\ walk.results[1].uptime_porcentaje = "99.50"

\* the line contains the declaration marker and the target
NamesTarget(line, t) == Contains(line, ProbeMarker) /\ Contains(line, t)

\* the line, trimmed, ends exactly with the target
EndsExactly(line, t) ==
    LET s == Strip(line)
    IN  Len(s) >= Len(t) /\ SubSeq(s, Len(s) - Len(t) + 1, Len(s)) = t

\* the last word of the line is a longer target of which t is a strict prefix
StrictPrefixLine(line, t) ==
    LET s == Strip(line)
    IN  \E k \in 1..Len(s) :
          /\ k + Len(t) - 1 < Len(s)
          /\ SubSeq(s, k, k + Len(t) - 1) = t
          /\ \A q \in k..Len(s) : ~IsSpace(CharAt(s, q))
          /\ (k = 1 \/ IsSpace(CharAt(s, k - 1)))

\* C3: in single-target mode a record comes only from a page with a declaration
\* line that holds the marker and the target, holds neither /tramites nor
\* /educacion and, trimmed, ends exactly with the target; a page whose
\* declaration lines for the target all name a longer target, of which the
\* target is a strict prefix, produces no record.
C3_DeclarationGuard ==
    (mode = "single" /\ xpc \in {"scanned", "returned"} /\ cur_page # NoPage) =>
        LET lines == cur_page.lines IN
        /\ (xpc = "returned") =>
              \E i \in DOMAIN lines :
                 /\ NamesTarget(lines[i], target)
                 /\ ~Contains(lines[i], "/tramites")
                 /\ ~Contains(lines[i], "/educacion")
                 /\ EndsExactly(lines[i], target)
        /\ (\A i \in DOMAIN lines :
               NamesTarget(lines[i], target) => StrictPrefixLine(lines[i], target))
           => xpc = "scanned"

\* a page whose only declaration line names <target>docs, followed by a valid
\* statistics line, was scanned and gave no record
C3_Witness ==
    /\ mode = "single" /\ xpc = "scanned" /\ target = ExampleUrl
    /\ cur_page = PageOf(<<Decl(ExampleUrl) \o "docs", StatsFull>>)
    /\ ~found.found

\* C14: a document without pages gives no record, in single-target and in
\* discovery mode, and raises nothing; a page whose text is empty raises
\* nothing, adds no record and leaves the loop free to go on with the pages
\* that follow.
C14_NothingFromNothing ==
    /\ [](mode \in {"single", "discovery"} =>
            /\ (xpc = "returned" /\ npages = 0) => (Returned = <<>> /\ ~walk.raised)
            /\ (cur_page = EmptyPage /\ xpc # "loop") =>
                  (xpc = "scanned" /\ ENABLED NextPage))
    /\ [][(mode \in {"single", "discovery"} /\ cur_page' = EmptyPage
             /\ cur_page # EmptyPage) =>
                /\ xpc' = "scanned"
                /\ found' = found
                /\ walk'.results = walk.results
                /\ ~walk'.raised]_vars

\* in discovery mode the second page had an empty text: the scan goes on, with
\* the one record of the first page
C14_Witness ==
    /\ mode = "discovery" /\ xpc = "scanned" /\ npages = 2
    /\ cur_page = EmptyPage
    /\ Len(walk.results) = 1 /\ walk.results[1].pagina = 1

\* a page holds a match for the target: a line that passes the guard, and within
\* the ten lines that start at it a line with the marker and both triples
HasMatch(page, target_url) ==
    /\ ~page.none
    /\ \E j \in DOMAIN page.lines :
         /\ StatsLineMatches(page.lines[j])
         /\ \E i \in DOMAIN page.lines :
              /\ i <= j /\ j < i + 10
              /\ EndsWith(Strip(page.lines[i]), target_url)
              /\ Contains(page.lines[i], ProbeMarker)
              /\ ~Contains(page.lines[i], "/tramites")
              /\ ~Contains(page.lines[i], "/educacion")

\* C18 as the specification states it: once a page has held the target string,
\* extract_uptime_stats scans no further page, and gives no match of a later
\* page.
C18_AsClaimed ==
    [][(mode = "single" /\ first_hit # 0) => (npages' = npages /\ found' = found)]_vars

\* C18: extract_uptime_stats attempts a match on every page whose text holds
\* the target string, in page order. A page that holds a match ends the call
\* with that match and its page number, whether or not an earlier page held the
\* target; a page with a text and no match changes nothing and the loop goes on
\* with the next page; None is returned only when the pages are exhausted.
C18_ScanGoesOn ==
    /\ [](mode = "single" =>
            /\ xpc = "scanned" => ENABLED NextPage
            /\ (xpc = "returned" /\ found.found) =>
                  /\ HasMatch(cur_page, target)
                  /\ found.result.pagina = npages
            /\ (xpc = "returned" /\ ~found.found) => cur_page = NoPage)
    /\ [][(mode = "single" /\ npages' # npages) =>
            /\ xpc = "loop" /\ npages' = npages + 1
            /\ HasMatch(cur_page', target) =>
                  /\ xpc' = "returned" /\ found'.found
                  /\ found'.result.pagina = npages'
                  /\ found'.result.url = target
            /\ (~cur_page'.none /\ ~HasMatch(cur_page', target)) =>
                  (xpc' = "scanned" /\ found' = found)]_vars

\* the first page held the target string and no match, and the call returned
\* the match of the second page
C18_Witness ==
    /\ mode = "single" /\ xpc = "returned" /\ first_hit = 1
    /\ found.found /\ found.result.pagina = 2

\* the four groups of the statistics lines of the pools, read by hand
TriplesOf(line) ==
    CASE line = StatsFull -> <<"99.50", "06d 23h 59m 41s", "0.50", "00d 00h 10m 00s">>
      [] line = StatsOther -> <<"100", "07d 00h 00m 00s", "0", "00s">>
      [] OTHER -> <<>>

GroupsOf(result) ==
    <<result.uptime_porcentaje, result.uptime_duracion,
      result.downtime_porcentaje, result.downtime_duracion>>

\* line j is a statistics line with both triples in the lookahead of the
\* guard-passing declaration at line i (lines counted from 1)
Qualifies(lines, t, i, j) ==
    /\ i <= j /\ j <= i + 9
    /\ TriplesOf(lines[j]) # <<>>
    /\ DeclarationGuard(lines[i], t)

\* the first line from i on that holds the statistics marker, 0 if there is none
FirstMarkerLine(lines, i) ==
    Leftmost({j \in i..Len(lines) : Contains(lines[j], StatsMarker)})

\* C19 as the specification states it: a record comes from the first line at or
\* after a guard-passing declaration that holds the statistics marker, never
\* from a later statistics line.
C19_AsClaimed ==
    (mode = "single" /\ xpc = "returned" /\ found.found) =>
        \E i \in DOMAIN cur_page.lines :
            /\ DeclarationGuard(cur_page.lines[i], target)
            /\ FirstMarkerLine(cur_page.lines, i) # 0
            /\ GroupsOf(found.result)
                 = TriplesOf(cur_page.lines[FirstMarkerLine(cur_page.lines, i)])

\* C19: for a guard-passing declaration line the record is taken from the first
\* line of its lookahead that holds the statistics marker and carries both
\* triples: a statistics line that lacks a triple is passed over and a later
\* statistics line of the lookahead is used in its place. The page gives the
\* record of its first declaration that has such a line, and no match only
\* when no declaration has one.
C19_FirstFullStatsLine ==
    /\ (mode = "single" /\ xpc = "returned" /\ found.found) =>
          \E i, j \in DOMAIN cur_page.lines :
             /\ Qualifies(cur_page.lines, target, i, j)
             /\ \A a, b \in DOMAIN cur_page.lines :
                   Qualifies(cur_page.lines, target, a, b) =>
                       (a > i \/ (a = i /\ b >= j))
             /\ GroupsOf(found.result) = TriplesOf(cur_page.lines[j])
    /\ (mode = "single" /\ xpc = "scanned" /\ ~cur_page.none) =>
          \A i, j \in DOMAIN cur_page.lines :
             ~Qualifies(cur_page.lines, target, i, j)

\* the statistics line next to the declaration had the up triple only, and the
\* record came from the line after it
C19_Witness ==
    /\ mode = "single" /\ xpc = "returned" /\ found.found
    /\ cur_page.lines = <<Decl(target), StatsUpOnly, StatsOther>>
    /\ found.result.uptime_porcentaje = "100"

\* C20 as the specification states it: the lookahead of the declaration at line
\* i is the lines i to i + 10, so a page gives a record exactly when one of
\* those lines is a statistics line with both triples.
C20_AsClaimed ==
    [][(mode = "single" /\ npages' # npages /\ ~cur_page'.none) =>
        (xpc' = "returned" <=>
            \E i, j \in DOMAIN cur_page'.lines :
                /\ i <= j /\ j <= i + 10
                /\ TriplesOf(cur_page'.lines[j]) # <<>>
                /\ DeclarationGuard(cur_page'.lines[i], target))]_vars

\* C20: the statistics lookahead covers the ten lines i to i + 9 of the page
\* (clamped to its last line): a statistics line at any j with i <= j <= i + 9
\* is found, and one at an index greater than i + 9 is never used for the
\* declaration at i.
C20_LookaheadTenLines ==
    [][(mode = "single" /\ npages' # npages /\ ~cur_page'.none) =>
        (xpc' = "returned" <=>
            \E i, j \in DOMAIN cur_page'.lines :
                /\ j \in i..(i + 9)
                /\ TriplesOf(cur_page'.lines[j]) # <<>>
                /\ DeclarationGuard(cur_page'.lines[i], target))]_vars

\* the only statistics line was the eleventh line from the declaration, line
\* i + 10, and the page gave no record
C20_Witness ==
    /\ mode = "single" /\ xpc = "scanned" /\ ~cur_page.none
    /\ Len(cur_page.lines) = 11
    /\ cur_page.lines[1] = Decl(target)
    /\ cur_page.lines[11] = StatsFull
    /\ found = NotFound

\* the records the walk gave on the page it has just scanned
PageRecords == {n \in DOMAIN walk.results : walk.results[n].pagina = npages}

\* the six uptime and downtime fields of a record are those of one statistics
\* line of the page that has both triples
FromOneFullLine(result, lines) ==
    /\ result.uptime_unidad = "%" /\ result.downtime_unidad = "%"
    /\ \E j \in DOMAIN lines :
          /\ TriplesOf(lines[j]) # <<>>
          /\ GroupsOf(result) = TriplesOf(lines[j])

\* C23: in both modes a record comes only from a statistics line on which the
\* Up: triple and the Down: triple both match: a line with one of the two
\* never gives a record, and the six uptime and downtime fields of a record
\* come from one and the same line.
C23_BothTriples ==
    /\ (mode = "single" /\ xpc = "returned" /\ found.found) =>
          FromOneFullLine(found.result, cur_page.lines)
    /\ (mode = "discovery" /\ xpc = "scanned" /\ ~cur_page.none) =>
          \A n \in PageRecords : FromOneFullLine(walk.results[n], cur_page.lines)

\* the line after the declaration had the down triple only, and the record has
\* the six fields of the line that follows it
C23_Witness ==
    /\ mode = "single" /\ xpc = "returned" /\ found.found
    /\ cur_page.lines = <<Decl(target), StatsDownOnly, StatsFull>>
    /\ GroupsOf(found.result) = TriplesOf(StatsFull)

\* the optional fields and the marker of each
FieldMarkers ==
    [periodo_reporte |-> {"Report Time Span:"},
     horas_reporte |-> {"Report Hours:"},
     tipo_sensor |-> {"Sensor Type:"},
     tiempo_carga_promedio |-> {"Average (Loading time):", "Average (Loading Time):"}]

\* line k holds a marker of the field
HoldsField(lines, k, f) == \E m \in FieldMarkers[f] : Contains(lines[k], m)

\* the record has exactly the optional fields whose marker is on a line of the
\* page between lo and hi
FieldsOfWindow(result, lines, lo, hi) ==
    \A f \in DOMAIN FieldMarkers :
        (f \in DOMAIN result) <=>
            \E k \in DOMAIN lines : lo <= k /\ k <= hi /\ HoldsField(lines, k, f)

\* the line of the page the record's statistics were read from
IsStatsLineOf(result, lines, j) ==
    TriplesOf(lines[j]) # <<>> /\ TriplesOf(lines[j]) = GroupsOf(result)

\* C24 as the specification states it: the context window is the lines i - 5 to
\* i + 15 around the declaration line in single-target mode and i - 10 to
\* i + 10 around the statistics line in discovery mode.
C24_AsClaimed ==
    /\ (mode = "single" /\ xpc = "returned" /\ found.found) =>
          \E i \in DOMAIN cur_page.lines :
              /\ DeclarationGuard(cur_page.lines[i], target)
              /\ FieldsOfWindow(found.result, cur_page.lines, i - 5, i + 15)
    /\ (mode = "discovery" /\ xpc = "scanned" /\ ~cur_page.none) =>
          \A n \in PageRecords :
              \E j \in DOMAIN cur_page.lines :
                  /\ IsStatsLineOf(walk.results[n], cur_page.lines, j)
                  /\ FieldsOfWindow(walk.results[n], cur_page.lines, j - 10, j + 10)

\* C24: context enrichment scans exactly the lines of the page whose index lies
\* in [i - 5, i + 14] around the declaration line i in single-target mode, and
\* in [i - 10, i + 9] around the statistics line i in discovery mode, both
\* clamped to the page: a labeled field on a line inside the window is picked
\* up, one on a line outside it is not.
C24_ContextWindows ==
    /\ (mode = "single" /\ xpc = "returned" /\ found.found) =>
          \E i \in DOMAIN cur_page.lines :
              /\ DeclarationGuard(cur_page.lines[i], target)
              /\ FieldsOfWindow(found.result, cur_page.lines, i - 5, i + 14)
    /\ (mode = "discovery" /\ xpc = "scanned" /\ ~cur_page.none) =>
          \A n \in PageRecords :
              \E j \in DOMAIN cur_page.lines :
                  /\ IsStatsLineOf(walk.results[n], cur_page.lines, j)
                  /\ FieldsOfWindow(walk.results[n], cur_page.lines, j - 10, j + 9)

\* the Report Hours line was fifteen lines after the declaration, and the
\* record has no horas_reporte
C24_Witness ==
    /\ mode = "single" /\ xpc = "returned" /\ found.found
    /\ Len(cur_page.lines) = 16
    /\ cur_page.lines[1] = Decl(target)
    /\ cur_page.lines[16] = HoursLine
    /\ "horas_reporte" \notin DOMAIN found.result

\* the whole text that follows the label on the labeled lines of the pools,
\* read by hand
TextAfterLabel(line) ==
    CASE line = SpanLine -> "01/01/2024 - 07/01/2024"
      [] line = SpanLater -> "08/01/2024 - 14/01/2024"
      [] line = HoursLine -> "24 / 7"
      [] line = SensorLine -> "HTTP Advanced"
      [] line = LoadLine -> "245 msec"
      [] line = LoadClockLine -> "0:01 min"

\* the last line of the page that holds a marker of the field, 0 if none does
LastFieldLine(lines, f) ==
    LET S == {k \in DOMAIN lines : HoldsField(lines, k, f)}
    IN  IF S = {} THEN 0 ELSE CHOOSE k \in S : \A q \in S : q <= k

\* on a page that lies within the window: each optional field is the whole
\* text after the label of the last line that holds its marker, and is absent
\* when no line holds it
WholeTextFields(result, lines) ==
    \A f \in DOMAIN FieldMarkers :
        IF LastFieldLine(lines, f) = 0 THEN f \notin DOMAIN result
        ELSE /\ f \in DOMAIN result
             /\ result[f] = TextAfterLabel(lines[LastFieldLine(lines, f)])

\* a page all of whose lines lie in both context windows
ShortPage(page) == ~page.none /\ Len(page.lines) <= 4

\* C25: for each of the four labeled fields the value stored in the record is
\* the whole text that follows the marker on the line, trimmed; the last line
\* of the window that holds the marker wins, and a field whose marker is on no
\* line of the window is absent from the record.
C25_WholeTextAfterMarker ==
    /\ (mode = "single" /\ xpc = "returned" /\ found.found /\ ShortPage(cur_page)) =>
          WholeTextFields(found.result, cur_page.lines)
    /\ (mode = "discovery" /\ xpc = "scanned" /\ ShortPage(cur_page)) =>
          \A n \in PageRecords : WholeTextFields(walk.results[n], cur_page.lines)

\* every statistics-marker line of the page comes before every
\* declaration-marker line of the page
StatsLinesFirst(lines) ==
    \A j, i \in DOMAIN lines :
        (Contains(lines[j], StatsMarker) /\ Contains(lines[i], ProbeMarker)) => j < i

\* C29: in discovery mode the current target does not survive a page boundary:
\* a page whose statistics lines all come before its declaration lines adds no
\* record, also when the page before it declared a target that has no record
\* yet.
C29_TargetUnsetPerPage ==
    [][(mode = "discovery" /\ npages' # npages /\ ~cur_page'.none
            /\ StatsLinesFirst(cur_page'.lines)) =>
          (walk'.results = walk.results
           /\ walk'.processed_urls = walk.processed_urls)]_vars

\* the second page holds a statistics line and no declaration, and the walk
\* has no record
C29_Witness ==
    /\ mode = "discovery" /\ xpc = "scanned" /\ npages = 2
    /\ cur_page = PageOf(<<StatsFull>>)
    /\ walk.results = <<>> /\ walk.processed_urls = {}

\* C30: in discovery mode a target is marked as seen only when a record of it
\* is emitted: the de-duplication set is the set of the targets of the
\* records, and a statistics line with both triples that follows the
\* declaration of a known target, with no other declaration between them,
\* leaves a record of that target in the walk, whatever statistics lines that
\* lack a triple came before it.
C30_SeenOnlyWhenEmitted ==
    mode = "discovery" =>
        /\ walk.processed_urls = {walk.results[n].url : n \in DOMAIN walk.results}
        /\ (xpc = "scanned" /\ ~cur_page.none) =>
              \A i, j \in DOMAIN cur_page.lines :
                  (/\ i < j
                   /\ TriplesOf(cur_page.lines[j]) # <<>>
                   /\ Contains(cur_page.lines[i], ProbeMarker)
                   /\ ClassifyDeclaration(cur_page.lines[i], NoUrl) # NoUrl
                   /\ \A k \in (i + 1)..(j - 1) :
                         ~Contains(cur_page.lines[k], ProbeMarker)) =>
                      \E n \in DOMAIN walk.results :
                          walk.results[n].url
                              = ClassifyDeclaration(cur_page.lines[i], NoUrl)

\* the statistics line after the declaration had the up triple only, and the
\* line after it gave the record of the target
C30_Witness ==
    /\ mode = "discovery" /\ xpc = "scanned"
    /\ cur_page = PageOf(<<Decl(PrimaryUrl), StatsUpOnly, StatsFull>>)
    /\ Len(walk.results) = 1
    /\ walk.results[1].url = PrimaryUrl
    /\ walk.results[1].pagina = npages
    /\ walk.processed_urls = {PrimaryUrl}

\* the most specific known target whose literal a declaration line holds: a
\* subpath or a subdomain before the root, "" when it holds none
MostSpecific(line) ==
    IF Contains(line, "buenosaires.gob.ar/tramites") THEN "buenosaires.gob.ar/tramites"
    ELSE IF Contains(line, "buenosaires.gob.ar/educacion")
    THEN "buenosaires.gob.ar/educacion"
    ELSE IF Contains(line, "nba-drupal.buenosaires.gob.ar")
    THEN "nba-drupal.buenosaires.gob.ar"
    ELSE IF Contains(line, "ash.buenosaires.gob.ar") THEN "ash.buenosaires.gob.ar/"
    ELSE IF Contains(line, "https://buenosaires.gob.ar/")
    THEN "https://buenosaires.gob.ar/"
    ELSE ""

\* C21: in discovery mode the most specific known pattern a declaration line
\* holds wins: the target of every record is the most specific target of a
\* declaration line of its page, so a line that ends in
\* https://buenosaires.gob.ar/tramites gives the subpath target and not the
\* root target.
C21_MostSpecificWins ==
    (mode = "discovery" /\ xpc = "scanned" /\ ~cur_page.none) =>
        \A n \in PageRecords :
            \E i \in DOMAIN cur_page.lines :
                /\ Contains(cur_page.lines[i], ProbeMarker)
                /\ walk.results[n].url = MostSpecific(cur_page.lines[i])

\* the last declaration-marker line before line j, 0 when there is none
NearestDeclaration(lines, j) ==
    LET S == {i \in 1..(j - 1) : Contains(lines[i], ProbeMarker)}
    IN  IF S = {} THEN 0 ELSE CHOOSE i \in S : \A q \in S : q <= i

\* C22: in discovery mode every record is attributed to the most recently
\* declared target: its target is the one the nearest declaration-marker line
\* before its statistics line names, so a statistics line that follows the
\* declaration of an unrecognized target is not attributed to an earlier target.
C22_NearestDeclaration ==
    (mode = "discovery" /\ xpc = "scanned" /\ ~cur_page.none) =>
        \A n \in PageRecords :
            \E j \in DOMAIN cur_page.lines :
                /\ TriplesOf(cur_page.lines[j]) = GroupsOf(walk.results[n])
                /\ NearestDeclaration(cur_page.lines, j) # 0
                /\ walk.results[n].url =
                      ClassifyDeclaration(
                          cur_page.lines[NearestDeclaration(cur_page.lines, j)], NoUrl)

-----------------------------------------------------------------------------
(* The statistics functions on the files of a data folder *)

MaxRows == 2

\* the rows a file can hold: rows the program wrote, a row of blank and
\* non-numeric cells, a row of a file without the downtime column, a row of
\* padded and signed cells
AggRows ==
    { [uptime_segundos |-> "604781", downtime_segundos |-> "600"],
      [uptime_segundos |-> "604800", downtime_segundos |-> "0"],
      [uptime_segundos |-> "", downtime_segundos |-> "n/a"],
      [uptime_segundos |-> "86400"],
      [uptime_segundos |-> " 41 ", downtime_segundos |-> "+5"] }

AggFiles == {NoFile} \cup {FileOf(r) : r \in UNION {[1..n -> AggRows] : n \in 0..MaxRows}}

AggInit ==
    /\ ppc = "agg"
    /\ main_csv \in AggFiles
    /\ ash_csv \in AggFiles
    /\ stats = NoStats
    /\ debug_stats = NoStats
    /\ pdf_files = <<>> /\ ndone = 0 /\ all_results = <<>> /\ notice = ""
    /\ full_csv = NoFile /\ excel = NoExcel
    /\ CodecOff
    /\ ExtractOff

\* stats = calculate_downtime_statistics(data_path)
Calculate ==
    /\ ppc = "agg"
    /\ ~HasStats(stats)
    /\ stats' = calculate_downtime_statistics(main_csv, ash_csv)
    /\ UNCHANGED <<debug_stats, codecVars, extractVars, runVars, diskVars>>

\* stats = debug_calculate_downtime_statistics(data_path)
DebugCalculate ==
    /\ ppc = "agg"
    /\ ~HasStats(debug_stats)
    /\ debug_stats' = debug_calculate_downtime_statistics(main_csv, ash_csv)
    /\ UNCHANGED <<stats, codecVars, extractVars, runVars, diskVars>>

AggNext == Calculate \/ DebugCalculate

SpecAgg == AggInit /\ [][AggNext]_vars

-----------------------------------------------------------------------------
(* The properties of the statistics functions *)

\* the numbers a row of AggRows stands for, written out by hand
RowUptime(row) ==
    CASE row = [uptime_segundos |-> "604781", downtime_segundos |-> "600"] -> 604781
      [] row = [uptime_segundos |-> "604800", downtime_segundos |-> "0"] -> 604800
      [] row = [uptime_segundos |-> "", downtime_segundos |-> "n/a"] -> 0
      [] row = [uptime_segundos |-> "86400"] -> 86400
      [] row = [uptime_segundos |-> " 41 ", downtime_segundos |-> "+5"] -> 41

RowDowntime(row) ==
    CASE row = [uptime_segundos |-> "604781", downtime_segundos |-> "600"] -> 600
      [] row = [uptime_segundos |-> "604800", downtime_segundos |-> "0"] -> 0
      [] row = [uptime_segundos |-> "", downtime_segundos |-> "n/a"] -> 0
      [] row = [uptime_segundos |-> "86400"] -> 0
      [] row = [uptime_segundos |-> " 41 ", downtime_segundos |-> "+5"] -> 5

RECURSIVE TotalUptime(_)
TotalUptime(rows) ==
    IF Len(rows) = 0 THEN 0 ELSE RowUptime(Head(rows)) + TotalUptime(Tail(rows))

RECURSIVE TotalDowntime(_)
TotalDowntime(rows) ==
    IF Len(rows) = 0 THEN 0 ELSE RowDowntime(Head(rows)) + TotalDowntime(Tail(rows))

StatsKeys == {"main_url_uptime", "main_url_downtime", "ash_url_uptime",
              "ash_url_downtime", "total_time", "ash_downtime_percentage"}

\* C8: the four counters calculate_downtime_statistics returns are the sums of
\* the uptime seconds and of the downtime seconds of the rows of the main file
\* and of the rows of the ASH file, each summed on its own, total_time is the sum
\* of the four, and debug_calculate_downtime_statistics returns the same six
\* values for the same files.
C8_IndependentSums ==
    /\ HasStats(stats) =>
          /\ DOMAIN stats = StatsKeys
          /\ stats.main_url_uptime = TotalUptime(main_csv.rows)
          /\ stats.main_url_downtime = TotalDowntime(main_csv.rows)
          /\ stats.ash_url_uptime = TotalUptime(ash_csv.rows)
          /\ stats.ash_url_downtime = TotalDowntime(ash_csv.rows)
          /\ stats.total_time = stats.main_url_uptime + stats.main_url_downtime
                                + stats.ash_url_uptime + stats.ash_url_downtime
    /\ (HasStats(stats) /\ HasStats(debug_stats)) =>
          \A key \in StatsKeys : debug_stats[key] = stats[key]

\* both functions have returned for a main file of two rows and an ASH file of
\* one row whose sums all differ
C8_Witness ==
    /\ ppc = "agg"
    /\ main_csv = FileOf(<<[uptime_segundos |-> "604781", downtime_segundos |-> "600"],
                           [uptime_segundos |-> " 41 ", downtime_segundos |-> "+5"]>>)
    /\ ash_csv = FileOf(<<[uptime_segundos |-> "86400"]>>)
    /\ HasStats(stats) /\ HasStats(debug_stats)
    /\ stats.main_url_uptime = 604822 /\ stats.main_url_downtime = 605
    /\ stats.ash_url_uptime = 86400 /\ stats.ash_url_downtime = 0
    /\ debug_stats.total_time = 691827

\* whether a file adds nothing: absent or without rows
EmptyOrMissing(file) == ~file.exists \/ file.rows = <<>>

PercentageAsSpecified(s) ==
    /\ s.total_time = 0 => s.ash_downtime_percentage = ZeroPercent
    /\ s.total_time > 0 =>
          s.ash_downtime_percentage = Fraction(s.ash_url_downtime * 100, s.total_time)

\* C9: on files that are absent or empty both statistics functions return four
\* counters of 0, a total of 0 and a percentage of 0; whenever the total is 0
\* the percentage is 0 and not a division by zero, and when the total is
\* positive the percentage is the ASH downtime times 100 over the total.
C9_ZeroFilled ==
    \A s \in {stats, debug_stats} :
        HasStats(s) =>
            /\ PercentageAsSpecified(s)
            /\ (EmptyOrMissing(main_csv) /\ EmptyOrMissing(ash_csv)) => s = ZeroStats

\* both functions have returned a total of 0 for an absent main file and an ASH
\* file whose only row has no number in it
C9_Witness ==
    /\ ppc = "agg"
    /\ main_csv = NoFile
    /\ ash_csv = FileOf(<<[uptime_segundos |-> "", downtime_segundos |-> "n/a"]>>)
    /\ HasStats(stats) /\ HasStats(debug_stats)
    /\ stats.total_time = 0 /\ stats.ash_downtime_percentage = ZeroPercent
    /\ debug_stats = ZeroStats

-----------------------------------------------------------------------------
(* One run of process_all_pdfs over the PDF files of the data folder *)

\* a PDF file: its name, whether pdfplumber.open succeeds, its pages
Pdf(name, opens, pages) == [name |-> name, opens |-> opens, pages |-> pages]

\* what a call on a whole file gives: an exception, or the value returned
Raised == [raised |-> TRUE, found |-> FALSE, result |-> <<>>, results |-> <<>>]
ReturnedNone == [raised |-> FALSE, found |-> FALSE, result |-> <<>>, results |-> <<>>]
ReturnedDict(result) ==
    [raised |-> FALSE, found |-> TRUE, result |-> result, results |-> <<>>]
ReturnedList(results) ==
    [raised |-> FALSE, found |-> FALSE, result |-> <<>>, results |-> results]

\* for page_num, page in enumerate(pdf.pages), from the page numbered n (1-based)
RECURSIVE SinglePagesFrom(_, _, _)
SinglePagesFrom(pdf, n, target_url) ==
    IF n > Len(pdf.pages) THEN ReturnedNone
    ELSE LET o == SinglePage(pdf.name, pdf.pages[n], n - 1, target_url)
         IN  CASE o.outcome = "return" -> ReturnedDict(o.result)
               [] o.outcome = "raise" -> Raised
               [] o.outcome = "next" -> SinglePagesFrom(pdf, n + 1, target_url)

extract_uptime_stats(pdf, target_url) ==
    IF pdf.opens THEN SinglePagesFrom(pdf, 1, target_url) ELSE Raised

RECURSIVE DiscoveryPagesFrom(_, _, _)
DiscoveryPagesFrom(pdf, w, n) ==
    IF w.raised \/ n > Len(pdf.pages) THEN w
    ELSE DiscoveryPagesFrom(pdf, DiscoveryPage(pdf.name, w, pdf.pages[n], n - 1), n + 1)

extract_all_urls_from_pdf(pdf) ==
    IF ~pdf.opens THEN Raised
    ELSE LET w == DiscoveryPagesFrom(pdf, DiscoveryStart, 1)
         IN  IF w.raised THEN Raised ELSE ReturnedList(w.results)

\* the body of the try without the test that keeps the main URL of the second
\* call out
ProcessedResultsUnfiltered(pdf) ==
    LET result == extract_uptime_stats(pdf, PrimaryUrl)
        first == IF result.found THEN <<result.result>> ELSE <<>>
    IN  IF result.raised THEN <<>>
        ELSE LET other_results == extract_all_urls_from_pdf(pdf)
             IN  IF other_results.raised THEN first
                 ELSE first \o other_results.results

\* the body of the try for one file: what all_results has gained when the body
\* ends or an exception leaves it
ProcessedResults(pdf) ==
    LET result == extract_uptime_stats(pdf, PrimaryUrl)
        first == IF result.found THEN <<result.result>> ELSE <<>>
    IN  IF result.raised THEN <<>>
        ELSE LET other_results == extract_all_urls_from_pdf(pdf)
             IN  IF other_results.raised THEN first
                 ELSE first \o SelectSeq(other_results.results,
                                         LAMBDA res : res.url # PrimaryUrl)

fieldnames ==
    <<"archivo_pdf", "url", "uptime_porcentaje", "uptime_unidad", "uptime_duracion",
      "uptime_segundos", "downtime_porcentaje", "downtime_unidad",
      "downtime_duracion", "downtime_segundos", "periodo_reporte", "horas_reporte",
      "tipo_sensor", "tiempo_carga_promedio", "pagina">>

FieldSet == {fieldnames[i] : i \in DOMAIN fieldnames}

\* the fields whose values are integers
IntFields == {"uptime_segundos", "downtime_segundos", "pagina"}

\* if field not in result: result[field] = ''
FillFields(result) ==
    [f \in DOMAIN result \cup FieldSet |-> IF f \in DOMAIN result THEN result[f] ELSE ""]

\* the cell writer.writerow writes for a field: the str of its value, and the
\* empty string (DictWriter's restval) for a field the dict lacks
CsvCell(result, f) ==
    IF f \notin DOMAIN result THEN ""
    ELSE IF f \in IntFields THEN IntToStr(result[f]) ELSE result[f]

\* the cells of a row if the fields without a value were left out of it
CsvLineSparse(result) ==
    SelectSeq([i \in DOMAIN fieldnames |-> CsvCell(result, fieldnames[i])],
              LAMBDA cell : cell # "")

\* writer.writerow(result): one cell for each field of fieldnames, in their order
CsvLine(result) == [i \in DOMAIN fieldnames |-> CsvCell(result, fieldnames[i])]

\* a row as csv.DictReader gives it back: the cells under the names of the
\* header; a cell the row lacks reads as None, which the program takes as it
\* takes the empty string
ReadRow(header, line) ==
    [f \in {header[i] : i \in DOMAIN header} |->
        LET i == CHOOSE n \in DOMAIN header : header[n] = f
        IN  IF i <= Len(line) THEN line[i] ELSE ""]

\* writer.writerow(result) read back by csv.DictReader
CsvRow(result) == ReadRow(fieldnames, CsvLine(result))

\* a CSV file the run writes: writer.writeheader(), then a row for each dict
CsvFile(results) ==
    [exists |-> TRUE,
     header |-> fieldnames,
     lines |-> [i \in DOMAIN results |-> CsvLine(results[i])],
     rows |-> [i \in DOMAIN results |-> CsvRow(results[i])]]

\* [r for r in all_results if r['url'] == url]
ResultsFor(results, url) == SelectSeq(results, LAMBDA r : r.url = url)

\* create_summary_excel: the workbook it saves, from the statistics of the files
\* the data folder holds when it is called
create_summary_excel(main, ash) ==
    LET s == calculate_downtime_statistics(main, ash)
        total_downtime_seconds == s.main_url_downtime + s.ash_url_downtime
    IN  [exists |-> TRUE,
         stats |-> s,
         B3 |-> time_formatted(total_downtime_seconds),
         B7 |-> IntToStr(s.main_url_downtime),
         B8 |-> IntToStr(s.ash_url_downtime),
         B9 |-> IntToStr(total_downtime_seconds),
         B10 |-> IntToStr(s.total_time)]

MaxDocs == 2

\* the PDF files a data folder can hold: a report of the main URL and of ASH,
\* a report of the main URL alone, a report of ASH alone, a file pdfplumber
\* cannot open, a report of the main URL whose second page gives no text, and a
\* file that names the main URL in running text on its first page and has a
\* report of it, whose declaration line goes on after the URL, on its second
BothPdf ==
    Pdf("both.pdf", TRUE, <<PageOf(<<Decl(PrimaryUrl), StatsFull>>),
                            PageOf(<<Decl("https://" \o AshUrl), StatsFull>>)>>)
HomePdf == Pdf("home.pdf", TRUE, <<PageOf(<<Decl(PrimaryUrl), StatsOther, SpanLine>>)>>)
AshPdf == Pdf("ash.pdf", TRUE, <<PageOf(<<Decl("https://" \o AshUrl), StatsOther>>)>>)
BrokenPdf == Pdf("broken.pdf", FALSE, <<>>)
PartialPdf ==
    Pdf("partial.pdf", TRUE, <<PageOf(<<Decl(PrimaryUrl), StatsFull>>), NonePage>>)

TaggedPdf ==
    Pdf("tagged.pdf", TRUE, <<PageOf(<<"see " \o PrimaryUrl, SpanLine>>),
                              PageOf(<<Decl(PrimaryUrl) \o " (HTTP)", StatsFull>>)>>)

PdfPool == {BothPdf, HomePdf, AshPdf, TaggedPdf, BrokenPdf, PartialPdf}

\* what glob("*.pdf") can give: at most MaxDocs files of the pool, in any order
Corpora ==
    { c \in UNION {[1..n -> PdfPool] : n \in 0..MaxDocs} :
        \A i, j \in DOMAIN c : i # j => c[i] # c[j] }

RunInit ==
    /\ ppc = "idle"
    /\ pdf_files = <<>> /\ ndone = 0 /\ all_results = <<>> /\ notice = ""
    /\ full_csv = NoFile /\ main_csv = NoFile /\ ash_csv = NoFile
    /\ excel = NoExcel
    /\ stats = NoStats /\ debug_stats = NoStats
    /\ CodecOff
    /\ ExtractOff

\* the head of what the run prints about its outcome
NoPdfNotice == "No se encontraron archivos PDF"
FoundPdfNotice == "Encontrados"
NoDataNotice == "No se encontraron datos de uptime"
CsvNotice == "Archivo CSV generado exitosamente"

\* process_all_pdfs without the test of pdf_files
StartRunUnchecked ==
    /\ ppc = "idle"
    /\ \E files \in Corpora : pdf_files' = files
    /\ ppc' = "docs"
    /\ notice' = FoundPdfNotice
    /\ ndone' = 0
    /\ all_results' = <<>>
    /\ stats' = NoStats
    /\ UNCHANGED <<debug_stats, codecVars, extractVars, diskVars>>

\* process_all_pdfs starts: pdf_files = list(data_path.glob("*.pdf")); without
\* PDF files it says so and returns at once
StartRun ==
    /\ ppc = "idle"
    /\ \E files \in Corpora :
          /\ pdf_files' = files
          /\ ppc' = IF files = <<>> THEN "idle" ELSE "docs"
          /\ notice' = IF files = <<>> THEN NoPdfNotice ELSE FoundPdfNotice
    /\ ndone' = 0
    /\ all_results' = <<>>
    /\ stats' = NoStats
    /\ UNCHANGED <<debug_stats, codecVars, extractVars, diskVars>>

\* what the body of the try adds to all_results, for each file of the pool
ProcessedOf == [pdf \in PdfPool |-> ProcessedResults(pdf)]

\* whether the body of the try raises for a file
PdfRaises(pdf) ==
    \/ extract_uptime_stats(pdf, PrimaryUrl).raised
    \/ extract_all_urls_from_pdf(pdf).raised

\* the loop without its try: the exception of a file ends the run
ProcessPdfUncaught ==
    /\ ppc = "docs"
    /\ ndone < Len(pdf_files)
    /\ all_results' = all_results \o ProcessedOf[pdf_files[ndone + 1]]
    /\ ndone' = ndone + 1
    /\ ppc' = IF PdfRaises(pdf_files[ndone + 1]) THEN "idle" ELSE ppc
    /\ UNCHANGED <<pdf_files, notice, codecVars, extractVars, diskVars, statsVars>>

\* for pdf_file in pdf_files: one turn of the loop, its try and its except
ProcessPdf ==
    /\ ppc = "docs"
    /\ ndone < Len(pdf_files)
    /\ all_results' = all_results \o ProcessedOf[pdf_files[ndone + 1]]
    /\ ndone' = ndone + 1
    /\ UNCHANGED <<pdf_files, ppc, notice, codecVars, extractVars, diskVars, statsVars>>

\* after the loop: without results the run ends with a warning; with results
\* their durations are converted and uptime_report.csv is written
WriteCsv ==
    /\ ppc = "docs"
    /\ ndone = Len(pdf_files)
    /\ IF all_results = <<>>
       THEN /\ ppc' = "idle"
            /\ notice' = NoDataNotice
            /\ UNCHANGED <<all_results, full_csv>>
       ELSE LET filled == [i \in DOMAIN all_results |->
                              FillFields(WithSeconds(all_results[i]))]
            IN  /\ all_results' = filled
                /\ full_csv' = CsvFile(filled)
                /\ notice' = CsvNotice
                /\ ppc' = "main"
    /\ UNCHANGED <<pdf_files, ndone, main_csv, ash_csv, excel, codecVars,
                   extractVars, statsVars>>

\* if main_url_results: uptime_report_main_url.csv is written, the statistics
\* are calculated and create_summary_excel saves the workbook
WriteMainAndExcel ==
    /\ ppc = "main"
    /\ LET main_url_results == ResultsFor(all_results, PrimaryUrl)
       IN  IF main_url_results # <<>>
           THEN /\ main_csv' = CsvFile(main_url_results)
                /\ stats' = calculate_downtime_statistics(main_csv', ash_csv)
                /\ excel' = create_summary_excel(main_csv', ash_csv)
           ELSE UNCHANGED <<main_csv, stats, excel>>
    /\ ppc' = "ash"
    /\ UNCHANGED <<pdf_files, ndone, all_results, notice, full_csv, ash_csv, debug_stats,
                   codecVars, extractVars>>

\* if ash_url_results: uptime_report_ash_url.csv is written
WriteAsh ==
    /\ ppc = "ash"
    /\ LET ash_url_results == ResultsFor(all_results, AshUrl)
       IN  IF ash_url_results # <<>>
           THEN ash_csv' = CsvFile(ash_url_results)
           ELSE UNCHANGED ash_csv
    /\ ppc' = "stats"
    /\ UNCHANGED <<pdf_files, ndone, all_results, notice, full_csv, main_csv, excel,
                   codecVars, extractVars, statsVars>>

\* if main_url_results or ash_url_results: the statistics are calculated again
\* and printed; the run ends
FinalStats ==
    /\ ppc = "stats"
    /\ IF ResultsFor(all_results, PrimaryUrl) # <<>>
          \/ ResultsFor(all_results, AshUrl) # <<>>
       THEN stats' = calculate_downtime_statistics(main_csv, ash_csv)
       ELSE UNCHANGED stats
    /\ ppc' = "idle"
    /\ UNCHANGED <<pdf_files, ndone, all_results, notice, debug_stats, codecVars,
                   extractVars, diskVars>>

Next == StartRun \/ ProcessPdf \/ WriteCsv \/ WriteMainAndExcel \/ WriteAsh
        \/ FinalStats

Spec == RunInit /\ [][Next]_vars

-----------------------------------------------------------------------------
(* The properties of a run *)

\* the sum of an integer field over the dicts of a run
RECURSIVE SumField(_, _)
SumField(results, field) ==
    IF Len(results) = 0 THEN 0
    ELSE Head(results)[field] + SumField(Tail(results), field)

\* the statistics of the records of one run: those of the main URL and those of
\* ASH among all_results
RunAggregate(results) ==
    LET home == ResultsFor(results, PrimaryUrl)
        ash == ResultsFor(results, AshUrl)
        total == SumField(home, "uptime_segundos") + SumField(home, "downtime_segundos")
                 + SumField(ash, "uptime_segundos") + SumField(ash, "downtime_segundos")
    IN  [main_url_uptime |-> SumField(home, "uptime_segundos"),
         main_url_downtime |-> SumField(home, "downtime_segundos"),
         ash_url_uptime |-> SumField(ash, "uptime_segundos"),
         ash_url_downtime |-> SumField(ash, "downtime_segundos"),
         total_time |-> total,
         ash_downtime_percentage |->
             IF total > 0 THEN Fraction(SumField(ash, "downtime_segundos") * 100, total)
             ELSE ZeroPercent]

\* create_summary_excel has just saved the workbook of this run
ExcelJustSaved == ppc = "ash" /\ ResultsFor(all_results, PrimaryUrl) # <<>>

\* C10: the statistics a run hands to create_summary_excel are those of the
\* records of that run: the aggregate of its records of the main URL and of its
\* records of ASH, whatever uptime_report_ash_url.csv held before the run and
\* whether or not the run has written it yet.
C10_ExcelStatsOfThisRun ==
    ExcelJustSaved => excel.stats = RunAggregate(all_results)

\* the files of the pool whose processing raises, by name
FailingNames == {"broken.pdf", "partial.pdf"}

\* the records a file of the pool that does not raise gives, by name: the
\* target and the page of each
ExpectedRecords(name) ==
    CASE name = "both.pdf" -> {<<PrimaryUrl, "1">>, <<AshUrl, "2">>}
      [] name = "home.pdf" -> {<<PrimaryUrl, "1">>}
      [] name = "ash.pdf" -> {<<AshUrl, "1">>}
      [] OTHER -> {}

\* uptime_report.csv holds a row for the file, the target and the page
InOutput(name, rec) ==
    \E n \in DOMAIN full_csv.rows :
        /\ full_csv.rows[n].archivo_pdf = name
        /\ full_csv.rows[n].url = rec[1]
        /\ full_csv.rows[n].pagina = rec[2]

\* the run has written uptime_report.csv
OutputWritten == ppc \in {"main", "ash", "stats"}

\* C11: a failure while one file is processed does not end the run: the loop is
\* left only after the last file, and the records of every file that comes
\* after a failing one are in uptime_report.csv.
C11_RunContinues ==
    /\ (ppc # "docs" /\ pdf_files # <<>>) => ndone = Len(pdf_files)
    /\ OutputWritten =>
          \A i, j \in DOMAIN pdf_files :
              (i < j /\ pdf_files[i].name \in FailingNames
                     /\ pdf_files[j].name \notin FailingNames) =>
                  \A rec \in ExpectedRecords(pdf_files[j].name) :
                      InOutput(pdf_files[j].name, rec)

\* broken.pdf could not be opened, and the two records of both.pdf, which came
\* after it, are in uptime_report.csv
C11_Witness ==
    /\ ppc = "main"
    /\ pdf_files = <<BrokenPdf, BothPdf>>
    /\ InOutput("both.pdf", <<PrimaryUrl, "1">>)
    /\ InOutput("both.pdf", <<AshUrl, "2">>)

\* C12: a file whose processing fails is left out of the output: once
\* uptime_report.csv is written it holds no row of a file of the run whose
\* processing raised, in the call of extract_uptime_stats or in the call of
\* extract_all_urls_from_pdf.
C12_FailedFileOmitted ==
    OutputWritten =>
        \A i \in DOMAIN pdf_files :
            PdfRaises(pdf_files[i]) =>
                \A n \in DOMAIN full_csv.rows :
                    full_csv.rows[n].archivo_pdf # pdf_files[i].name

\* C13: a run that finds no PDF file says so and returns before any file is
\* processed and before any statistics are calculated, and it creates or
\* changes none of uptime_report.csv, uptime_report_main_url.csv,
\* uptime_report_ash_url.csv and resumen_downtime.xlsx.
C13_NoInputNoOutput ==
    [][(ppc = "idle" /\ pdf_files' = <<>>) =>
          /\ ppc' = "idle"
          /\ notice' = NoPdfNotice
          /\ all_results' = <<>> /\ ndone' = 0
          /\ stats' = NoStats
          /\ full_csv' = full_csv /\ main_csv' = main_csv
          /\ ash_csv' = ash_csv /\ excel' = excel]_vars

\* a run found no PDF file in a data folder that holds the four files of an
\* earlier run
C13_Witness ==
    /\ ppc = "idle" /\ pdf_files = <<>> /\ notice = NoPdfNotice
    /\ full_csv.exists /\ main_csv.exists /\ ash_csv.exists /\ excel.exists

\* the fifteen columns, in their order
FifteenFields ==
    <<"archivo_pdf", "url", "uptime_porcentaje", "uptime_unidad", "uptime_duracion",
      "uptime_segundos", "downtime_porcentaje", "downtime_unidad",
      "downtime_duracion", "downtime_segundos", "periodo_reporte", "horas_reporte",
      "tipo_sensor", "tiempo_carga_promedio", "pagina">>

\* the optional fields the report of a file of the pool gives, by name: only
\* home.pdf has a context line, its Report Time Span
ExpectedContext(name) ==
    [periodo_reporte |-> IF name = "home.pdf" THEN "01/01/2024 - 07/01/2024" ELSE "",
     horas_reporte |-> "", tipo_sensor |-> "", tiempo_carga_promedio |-> ""]

\* every row of the file has the fifteen cells, the optional ones empty unless
\* the report gave them
FifteenCells(file) ==
    file.exists =>
        /\ file.header = FifteenFields
        /\ \A n \in DOMAIN file.lines :
              /\ Len(file.lines[n]) = 15
              /\ DOMAIN file.rows[n] = {FifteenFields[i] : i \in 1..15}
              /\ file.lines[n][1] = file.rows[n].archivo_pdf
              /\ file.lines[n][15] = file.rows[n].pagina
              /\ \A i \in 11..14 :
                    file.lines[n][i] =
                        ExpectedContext(file.rows[n].archivo_pdf)[FifteenFields[i]]

\* C15: every row of uptime_report.csv, of uptime_report_main_url.csv and of
\* uptime_report_ash_url.csv has the same fifteen fields in the fixed order, and
\* an optional field the report does not give is in the row as the empty string.
C15_RowShape ==
    ppc # "agg" => (FifteenCells(full_csv) /\ FifteenCells(main_csv)
                    /\ FifteenCells(ash_csv))

\* a run over home.pdf and both.pdf has written the three files: the row of
\* home.pdf has its Report Time Span and three empty optional cells
C15_Witness ==
    /\ ppc = "stats"
    /\ pdf_files = <<HomePdf, BothPdf>>
    /\ Len(full_csv.lines) = 3 /\ Len(main_csv.lines) = 2 /\ Len(ash_csv.lines) = 1
    /\ main_csv.lines[1][11] = "01/01/2024 - 07/01/2024"
    /\ main_csv.lines[1][12] = "" /\ main_csv.lines[1][13] = ""
    /\ main_csv.lines[1][14] = ""
    /\ ash_csv.lines[1][11] = ""

\* the seconds the duration tokens of the pool stand for, written out by hand
SecondsOfToken(token) ==
    CASE token = "06d 23h 59m 41s" -> 604781
      [] token = "00d 00h 10m 00s" -> 600
      [] token = "07d 00h 00m 00s" -> 604800
      [] token = "00s" -> 0

\* C16: in every record of the output uptime_segundos and downtime_segundos are
\* integers >= 0, the first the seconds of the record's uptime duration and the
\* second the seconds of its downtime duration, and the rows of
\* uptime_report.csv hold them in decimal digits.
C16_SecondsFromOwnToken ==
    OutputWritten =>
        \A n \in DOMAIN all_results :
            LET r == all_results[n] IN
            /\ r.uptime_segundos \in Nat /\ r.downtime_segundos \in Nat
            /\ r.uptime_segundos = SecondsOfToken(r.uptime_duracion)
            /\ r.downtime_segundos = SecondsOfToken(r.downtime_duracion)
            /\ r.uptime_segundos = duration_to_seconds(Str(r.uptime_duracion))
            /\ r.downtime_segundos = duration_to_seconds(Str(r.downtime_duracion))
            /\ full_csv.rows[n].uptime_duracion = r.uptime_duracion
            /\ full_csv.rows[n].downtime_duracion = r.downtime_duracion
            /\ full_csv.rows[n].uptime_segundos = IntToStr(r.uptime_segundos)
            /\ full_csv.rows[n].downtime_segundos = IntToStr(r.downtime_segundos)

\* a run over both.pdf and ash.pdf has written its records: 604781 and 600
\* seconds for both.pdf, 604800 and 0 seconds for ash.pdf
C16_Witness ==
    /\ ppc = "main"
    /\ pdf_files = <<BothPdf, AshPdf>>
    /\ Len(all_results) = 3
    /\ all_results[1].uptime_segundos = 604781
    /\ all_results[1].downtime_segundos = 600
    /\ full_csv.rows[3].uptime_segundos = "604800"
    /\ full_csv.rows[3].downtime_segundos = "0"

\* the key of a record: its file, its target and its page
RecordKey(r) == <<r.archivo_pdf, r.url, r.pagina>>

\* C17: no two records a run has collected, and no two rows of
\* uptime_report.csv, share the file, the target and the page.
C17_UniqueKeys ==
    ppc # "agg" =>
        /\ \A i, j \in DOMAIN all_results :
              i # j => RecordKey(all_results[i]) # RecordKey(all_results[j])
        /\ \A i, j \in DOMAIN full_csv.rows :
              i # j => RecordKey(full_csv.rows[i]) # RecordKey(full_csv.rows[j])

\* a run over both.pdf and home.pdf has written three rows: two of both.pdf
\* with different targets, and one of home.pdf with the target and the page of
\* the first
C17_Witness ==
    /\ ppc = "main"
    /\ pdf_files = <<BothPdf, HomePdf>>
    /\ Len(full_csv.rows) = 3
    /\ RecordKey(full_csv.rows[1]) = <<"both.pdf", PrimaryUrl, "1">>
    /\ RecordKey(full_csv.rows[2]) = <<"both.pdf", AshUrl, "2">>
    /\ RecordKey(full_csv.rows[3]) = <<"home.pdf", PrimaryUrl, "1">>

\* the records of the main URL that extract_all_urls_from_pdf returns for a file
DiscoveredPrimary(pdf) ==
    LET other_results == extract_all_urls_from_pdf(pdf)
    IN  IF other_results.raised THEN <<>>
        ELSE ResultsFor(other_results.results, PrimaryUrl)

DiscoveredPrimaryOf == [pdf \in PdfPool |-> DiscoveredPrimary(pdf)]

\* C27: the test that keeps the main URL of the second call out loses no
\* record of the main URL: uptime_report.csv has a row of the main URL for
\* every file that was processed without an exception and for which
\* extract_all_urls_from_pdf returns a record of the main URL.
C27_NoPrimaryRecordLost ==
    OutputWritten =>
        \A j \in DOMAIN pdf_files :
            (~PdfRaises(pdf_files[j]) /\ DiscoveredPrimaryOf[pdf_files[j]] # <<>>) =>
                \E n \in DOMAIN full_csv.rows :
                    /\ full_csv.rows[n].archivo_pdf = pdf_files[j].name
                    /\ full_csv.rows[n].url = PrimaryUrl

\* a run that had records has ended
RunEnded == ppc = "idle" /\ notice = CsvNotice

\* the rows a filtered file holds when it holds the records of this run of one
\* target
RowsOfRun(url) == CsvFile(ResultsFor(all_results, url)).rows

\* C28: after any sequence of runs, when a run has ended each filtered file
\* holds exactly the records of that run of its target (no rows for a target
\* the run has no record of), and the statistics calculated at the end of the
\* run are the aggregate of the records of that run.
C28_LatestRunFiles ==
    RunEnded =>
        /\ main_csv.rows = RowsOfRun(PrimaryUrl)
        /\ ash_csv.rows = RowsOfRun(AshUrl)
        /\ HasStats(stats) => stats = RunAggregate(all_results)

-----------------------------------------------------------------------------
(* Calls of extract_all_urls_from_pdf on several files at one time *)

MaxWalks == 2

\* the files of the pool that pdfplumber opens
WalkDocs == {pdf \in PdfPool : pdf.opens}

\* a call that has opened its file: results = [], processed_urls = set() are
\* locals of the call
WalkStart(pdf) == [pdf |-> pdf, n |-> 0, w |-> DiscoveryStart]

WalksInit ==
    /\ walks \in [1..MaxWalks -> {WalkStart(pdf) : pdf \in WalkDocs}]
    /\ CallOff
    /\ CodecOff
    /\ RunOff

\* the page loop if processed_urls were one set for all the calls
WalkPageSharedSet(d) ==
    /\ ~walks[d].w.raised
    /\ walks[d].n < Len(walks[d].pdf.pages)
    /\ LET c == walks[d]
           seen == UNION {walks[e].w.processed_urls : e \in DOMAIN walks}
           w == DiscoveryPage(c.pdf.name, [c.w EXCEPT !.processed_urls = seen],
                              c.pdf.pages[c.n + 1], c.n)
       IN  walks' = [walks EXCEPT ![d] = [pdf |-> c.pdf, n |-> c.n + 1, w |-> w]]
    /\ UNCHANGED <<mode, kind, target, xpc, npages, cur_page, found, first_hit, walk,
                   converted, codecVars, runVars, diskVars, statsVars>>

\* one turn of the page loop of the call d, on its own results and
\* processed_urls; the other calls stay where they are
WalkPage(d) ==
    /\ ~walks[d].w.raised
    /\ walks[d].n < Len(walks[d].pdf.pages)
    /\ LET c == walks[d]
           w == DiscoveryPage(c.pdf.name, c.w, c.pdf.pages[c.n + 1], c.n)
       IN  walks' = [walks EXCEPT ![d] = [pdf |-> c.pdf, n |-> c.n + 1, w |-> w]]
    /\ UNCHANGED <<mode, kind, target, xpc, npages, cur_page, found, first_hit, walk,
                   converted, codecVars, runVars, diskVars, statsVars>>

WalksNext == \E d \in DOMAIN walks : WalkPage(d)

SpecWalks == WalksInit /\ [][WalksNext]_vars

\* the target and the page of each record extract_all_urls_from_pdf gives for
\* a file of the pool, written out by hand
WalkExpected(name) ==
    CASE name = "both.pdf" -> {<<PrimaryUrl, 1>>, <<AshUrl, 2>>}
      [] name = "home.pdf" -> {<<PrimaryUrl, 1>>}
      [] name = "ash.pdf" -> {<<AshUrl, 1>>}
      [] name = "tagged.pdf" -> {<<PrimaryUrl, 2>>}
      [] name = "partial.pdf" -> {<<PrimaryUrl, 1>>}

\* the targets and pages of the records a call has so far
WalkRecords(c) == {<<c.w.results[n].url, c.w.results[n].pagina>> : n \in DOMAIN c.w.results}

\* the call has left its page loop
WalkEnded(c) == c.w.raised \/ c.n = Len(c.pdf.pages)

\* C26: processed_urls belongs to one call of extract_all_urls_from_pdf: it is
\* empty when the call starts and holds the targets of the records of that call
\* alone, so whatever other calls have recorded, in whatever order their pages
\* are taken, a call ends with the records of every target of its own file.
C26_SetPerWalk ==
    \A d \in DOMAIN walks :
        /\ walks[d].n = 0 => walks[d].w.processed_urls = {}
        /\ walks[d].w.processed_urls
              = {walks[d].w.results[n].url : n \in DOMAIN walks[d].w.results}
        /\ WalkEnded(walks[d]) =>
              WalkRecords(walks[d]) = WalkExpected(walks[d].pdf.name)

\* two calls on different files are in the middle of their page loops at one
\* time, and each has recorded the main URL of its own file
C26_Witness ==
    /\ walks # <<>>
    /\ walks[1].pdf = BothPdf /\ walks[1].n = 1
    /\ walks[2].pdf = PartialPdf /\ walks[2].n = 1
    /\ WalkRecords(walks[1]) = {<<PrimaryUrl, 1>>}
    /\ WalkRecords(walks[2]) = {<<PrimaryUrl, 1>>}
    /\ walks[1].w.processed_urls = {PrimaryUrl}
    /\ walks[2].w.processed_urls = {PrimaryUrl}

-----------------------------------------------------------------------------
(* The codec applied to one input *)

CodecInit ==
    /\ cin \in CodecInputs
    /\ cop = "init"
    /\ decoded = 0
    /\ text = ""
    /\ ExtractOff
    /\ RunOff

\* duration_to_seconds(token)
Decode ==
    /\ cop = "init"
    /\ decoded' = duration_to_seconds(cin.tok)
    /\ cop' = "decode"
    /\ UNCHANGED <<cin, text>>
    /\ UNCHANGED <<extractVars, runVars, diskVars, statsVars>>

\* seconds_to_duration_format(total_seconds)
Encode ==
    /\ cop = "init"
    /\ cin.kind = "secs"
    /\ text' = seconds_to_duration_format(cin.secs)
    /\ cop' = "encode"
    /\ UNCHANGED <<cin, decoded>>
    /\ UNCHANGED <<extractVars, runVars, diskVars, statsVars>>

\* the hh:mm:ss value of create_summary_excel
EncodeClock ==
    /\ cop = "init"
    /\ cin.kind = "secs"
    /\ text' = time_formatted(cin.secs)
    /\ cop' = "clock"
    /\ UNCHANGED <<cin, decoded>>
    /\ UNCHANGED <<extractVars, runVars, diskVars, statsVars>>

CodecNext == Decode \/ Encode \/ EncodeClock

SpecCodec == CodecInit /\ [][CodecNext]_vars

-----------------------------------------------------------------------------
(* The codec's properties *)

\* C4: duration_to_seconds returns days*86400 + hours*3600 + minutes*60 + seconds,
\* each component being the integer written before its unit letter, in whatever
\* combination and order the components are written; a component that is absent
\* counts as zero, so an empty or absent token and a token with no component
\* decode to 0.
C4_DecodeIsWeightedSum ==
    cop = "decode" =>
        decoded = cin.comp[1] * 86400 + cin.comp[2] * 3600
                  + cin.comp[3] * 60 + cin.comp[4]

\* a token that writes its seconds before its days and has no hours was decoded
C4_Witness ==
    /\ cop = "decode"
    /\ cin.kind = "token"
    /\ cin.tok.str = "41s, 59m, 06d"
    /\ decoded = 6 * 86400 + 59 * 60 + 41

\* C5: for s >= 0, the token '<days>d <hours>h <minutes>m <seconds>s' written from
\* the breakdown of s decodes to s.
C5_RoundTrip ==
    (cop = "decode" /\ cin.kind = "secs") =>
        /\ cin.tok.str = BreakdownToken(cin.secs)
        /\ decoded = cin.secs

\* the breakdown of 41 days, 23 hours, 59 minutes and 41 seconds was decoded
C5_Witness ==
    /\ cop = "decode"
    /\ cin.kind = "secs"
    /\ cin.tok.str = "41d 23h 59m 41s"
    /\ decoded = 41 * 86400 + 23 * 3600 + 59 * 60 + 41

\* one component of the phrase: nothing for 0, the singular for 1, else the plural
PhrasePiece(v, singular, plural) ==
    IF v = 0 THEN ""
    ELSE IF v = 1 THEN "1 " \o singular
    ELSE IntToStr(v) \o " " \o plural

\* two pieces joined by ', ' when neither is empty
PhraseGlue(a, b) == IF a = "" THEN b ELSE IF b = "" THEN a ELSE a \o ", " \o b

ExpectedPhrase(s) ==
    IF s = 0 THEN "0 segundos"
    ELSE PhraseGlue(
            PhraseGlue(
                PhraseGlue(PhrasePiece(s \div 86400, "día", "días"),
                           PhrasePiece((s % 86400) \div 3600, "hora", "horas")),
                PhrasePiece((s % 3600) \div 60, "minuto", "minutos")),
            PhrasePiece(s % 60, "segundo", "segundos"))

\* C6: seconds_to_duration_format returns '0 segundos' for 0 and, for s > 0, the
\* non-zero components of s in descending unit order joined by ', ', each in the
\* singular for 1 and in the plural otherwise; 90061 gives '1 día, 1 hora,
\* 1 minuto, 1 segundo' and 172800 gives '2 días'.
C6_EncodePhrase ==
    cop = "encode" =>
        /\ text = ExpectedPhrase(cin.secs)
        /\ cin.secs = 0 => text = "0 segundos"
        /\ cin.secs = 90061 => text = "1 día, 1 hora, 1 minuto, 1 segundo"
        /\ cin.secs = 172800 => text = "2 días"
        /\ cin.secs = 86700 => text = "1 día, 5 minutos"

\* one day, no hour and five minutes was encoded: the hour clause is left out
C6_Witness ==
    /\ cop = "encode"
    /\ cin.secs = 86400 + 5 * 60
    /\ text = "1 día, 5 minutos"

AllDigits(s) == \A i \in 1..Len(s) : IsDigit(CharAt(s, i))

\* C7: the hh:mm:ss rendering of a seconds total has its three components, each of
\* at least two digits, minutes and seconds in 0..59 and hours not wrapped, and
\* hours*3600 + minutes*60 + seconds is the total; 3661 gives '01:01:01' and 0
\* gives '00:00:00'.
C7_ClockRendering ==
    cop = "clock" =>
        LET c1 == FindFrom(text, ":", 1)
            c2 == FindFrom(text, ":", c1 + 1)
            hh == SubSeq(text, 1, c1 - 1)
            mm == SubSeq(text, c1 + 1, c2 - 1)
            ss == SubSeq(text, c2 + 1, Len(text))
        IN  /\ c1 > 0 /\ c2 > c1
            /\ Len(hh) >= 2 /\ Len(mm) = 2 /\ Len(ss) = 2
            /\ AllDigits(hh) /\ AllDigits(mm) /\ AllDigits(ss)
            /\ StrToInt(mm) <= 59 /\ StrToInt(ss) <= 59
            /\ StrToInt(hh) * 3600 + StrToInt(mm) * 60 + StrToInt(ss) = cin.secs
            /\ cin.secs = 3661 => text = "01:01:01"
            /\ cin.secs = 0 => text = "00:00:00"

\* two days, one hour, one minute and one second were rendered: 49 hours
C7_Witness ==
    /\ cop = "clock"
    /\ cin.secs = 2 * 86400 + 3661
    /\ text = "49:01:01"

====
